---- MODULE Spec2Model ----
(***************************************************************************)
(* Verification model of the Alpha-Arena reverse-engineering pipeline:     *)
(*   - the cross-source merge (src/src/merger.py) over the extension       *)
(*     database reader (src/src/sqlite_reader.py) and the playwright file  *)
(*     store (src/src/storage.py);                                         *)
(*   - section extraction on both capture paths (sqlite_reader.py and      *)
(*     src/src/chain_extractor.py);                                        *)
(*   - fingerprint scoring and the identification run                      *)
(*     (src/workflows/identify_unknown_models.py);                         *)
(*   - the retried extraction batch                                        *)
(*     (src/workflows/extract_structured_reasoning.py);                    *)
(*   - trading-decision parsing on both capture paths;                     *)
(*   - header recovery (model name, timestamp) on both capture paths;      *)
(*   - construction of the merger over its two sources.                    *)
(* Each component has its own specification (SpecMerge, SpecExtract,       *)
(* SpecScore, SpecIdentify, SpecRetry, SpecRetryFair, SpecParse,           *)
(* SpecHeader, SpecStartup); the variables of the other components stay    *)
(* idle in it.                                                             *)
(***************************************************************************)
EXTENDS Integers, Sequences, FiniteSets, TLC

VARIABLES
    \* ---- merge component ----
    ext_rows,      \* rows of model_chat in the order the SELECT returns them
    pw_files,      \* messages loaded from the playwright raw/ directory
    m_pc,          \* "idle" | "merged" | "stats": what the last call returned
    m_priority,    \* priority_source argument of the last merge
    merged,        \* list returned by _deduplicate_messages
    stats,         \* dict returned by get_merge_statistics
    \* ---- extraction component ----
    x_path,        \* "none" | "extension" | "playwright": path of the last input
    x_raw,         \* raw text of the last input (sequence of tokens)
    x_reasoning,   \* reasoning column of the last extension row
    x_out,         \* outcome: [kind |-> "message" | "none" | "skipped", ...]
    \* ---- identification component ----
    known_rows,    \* number of known-model rows folded into the fingerprints
    model_fingerprints, \* model -> fingerprint, built by _build_fingerprints
    s_pc,          \* "build" | "ready" | "matched"
    unknown_data,  \* the unknown record of the last match_unknown_message call
    scores,        \* model -> [num, den] score of the last call
    s_outcome,     \* "none" | "ok" | "TypeError": how the last call ended
    best,          \* (model, confidence) returned by the last call
    \* ---- identification run (main of identify_unknown_models.py) ----
    i_pc,          \* "store" | "loop" | "raised" | "done"
    i_table,       \* rows of structured_reasoning stored as 'unknown-model'
    i_before,      \* i_table as it was when the run started
    i_threshold,   \* --confidence-threshold, in hundredths
    i_next,        \* index of the next row of the identification loop
    results,       \* dict built by identify_all_unknown
    i_caller,      \* "main" | "api": who decided about update_database
    i_request,     \* TRUE when the caller asked for the update
    \* ---- LLM extraction batch (extract_structured_reasoning.py) ----
    r_pc,          \* "idle" | "running" | "aborted" | "raised" | "finished"
    r_total,       \* len(messages)
    r_i,           \* number of the message being processed (from 1)
    r_attempt,     \* loop variable attempt of extract_reasoning
    r_calls,       \* per message: calls of client.messages.create
    r_waits,       \* per message: the time.sleep arguments of extract_reasoning
    r_status,      \* per message: "pending" | "saved" | "failed" | "fatal" | "unsaved"
    r_last,        \* outcome of the last API call
    r_pauses,      \* number of 1.5 s sleeps between messages
    success_count, \* counters and log of process_messages
    error_count,
    error_log,
    \* ---- decision parsing ----
    p_pc,          \* "idle" | "parsed"
    p_path,        \* "scanner" | "regex" | "row": what produced the decisions
    p_records,     \* the records the text was written from (<<>>: free text)
    p_text,        \* the decisions text, as its non-blank lines
    p_row,         \* the extension row of the path "row"
    p_out,         \* the list of TradingDecision produced
    \* ---- header recovery over a run of inputs ----
    h_pc,          \* "idle" | "running" | "done"
    h_path,        \* "extension" | "playwright"
    h_inputs,      \* the rows of model_chat, or the snapshots, of the run
    h_next,        \* index of the next input
    h_messages,    \* the messages produced so far: [input, timestamp]
    \* ---- startup of the merger over the file system ----
    f_pc,          \* "unset" | "deployed" | "constructed" | "FileNotFoundError" | "merged"
    f_db,          \* the extension database: NULL (no file) or Some(rows)
    f_dirs,        \* the directories that exist, of parent/data_dir/{raw,processed}
    f_files,       \* number of message files in data_dir/raw
    f_before,      \* f_db and f_dirs as they were before DataMerger(...)
    f_seen         \* what merge_all read: messages per source

mvars == <<ext_rows, pw_files, m_pc, m_priority, merged, stats>>
xvars == <<x_path, x_raw, x_reasoning, x_out>>
svars == <<known_rows, model_fingerprints, s_pc, unknown_data, scores, s_outcome,
           best>>
ivars == <<i_pc, i_table, i_before, i_threshold, i_next, results, i_caller, i_request>>
rvars == <<r_pc, r_total, r_i, r_attempt, r_calls, r_waits, r_status, r_last, r_pauses,
           success_count, error_count, error_log>>
pvars == <<p_pc, p_path, p_records, p_text, p_row, p_out>>
hvars == <<h_pc, h_path, h_inputs, h_next, h_messages>>
fvars == <<f_pc, f_db, f_dirs, f_files, f_before, f_seen>>
vars == <<mvars, xvars, svars, ivars, rvars, pvars, hvars, fvars>>

NoValue == "None"

(***************************************************************************)
(* Bounds                                                                  *)
(***************************************************************************)
MaxRows == 2        \* rows in the extension table
MaxFiles == 2       \* files in the playwright raw/ directory
MaxText == 4        \* tokens in a raw transcript
MaxKnown == 2       \* known-model rows the fingerprints are built from
MaxUnknown == 2     \* unknown-model rows of one identification run
MaxMessages == 2    \* messages of one LLM extraction batch
MaxLines == 4       \* lines of a free decisions text
MaxRecords == 2     \* records of a decisions text written record by record
MaxRun == 3         \* rows or snapshots of one run of header recovery

(***************************************************************************)
(* Generic helpers                                                         *)
(***************************************************************************)
Range(s) == {s[i] : i \in 1..Len(s)}

(***************************************************************************)
(* Merge component: data                                                   *)
(* A timestamp is a naive datetime, counted in seconds from 10:15:00, so   *)
(* 47 = 10:15:47, 59 = 10:15:59, 61 = 10:16:01.                           *)
(* chain_of_thought is one of two texts.                                   *)
(***************************************************************************)
ModelNames == {"gpt 5", "grok 4"}
Contents == {"cot-a", "cot-b"}

\* The (model_name, chain_of_thought, timestamp) triples captured messages carry.
MessageKinds ==
    { [model_name |-> "gpt 5", chain_of_thought |-> "cot-a", timestamp |-> t] :
          t \in {47, 59, 61} }
    \cup { [model_name |-> "gpt 5", chain_of_thought |-> "cot-b", timestamp |-> 47],
           [model_name |-> "grok 4", chain_of_thought |-> "cot-a", timestamp |-> 47] }

\* market_data column of a row: a JSON object, or a JSON array, which
\* ModelMessage(market_data: Dict) rejects.
RowKinds ==
    { [model_name |-> k.model_name, chain_of_thought |-> k.chain_of_thought,
       timestamp |-> k.timestamp, market_data |-> "object"] : k \in MessageKinds }
    \cup { [model_name |-> "gpt 5", chain_of_thought |-> "cot-a",
            timestamp |-> 47, market_data |-> "array"] }

\* hashlib.sha256(text).hexdigest()[:16]: a digest per text, distinct texts of
\* the domain having distinct digests.
sha256_hex16(text) ==
    CASE text = "cot-a" -> "9f2c41d07be5a613"
      [] text = "cot-b" -> "04b7e9935ac1d2f8"
      [] OTHER -> "e3b0c44298fc1c14"

\* datetime.replace(second=0, microsecond=0)
ReplaceSecondZero(ts) == ts - (ts % 60)

(***************************************************************************)
(* Merge component: the two readers                                        *)
(***************************************************************************)
\* ExtensionDataReader._row_to_model_message, as far as the merge reads its
\* result: the ModelMessage of a row, or the exception ModelMessage raises on
\* a market_data that is not a dict.
row_to_model_message_merge(row) ==
    IF row.market_data = "object"
    THEN [kind |-> "message",
          msg |-> [model_name |-> row.model_name,
                   chain_of_thought |-> row.chain_of_thought,
                   timestamp |-> row.timestamp,
                   message_id |-> row.message_hash]]
    ELSE [kind |-> "exception"]

\* ExtensionDataReader.read_all_messages: a row that raises is skipped.
RECURSIVE read_all_messages(_)
read_all_messages(rows) ==
    IF rows = <<>> THEN <<>>
    ELSE LET r == row_to_model_message_merge(Head(rows))
         IN  IF r.kind = "message"
             THEN <<r.msg>> \o read_all_messages(Tail(rows))
             ELSE read_all_messages(Tail(rows))

\* ExtensionDataReader.get_statistics()["total_messages"]: SELECT COUNT(*).
get_statistics_total(rows) == Len(rows)

\* StorageManager.load_all_messages. The merge function is checked on the
\* files in every order, which includes the order load_messages sorts into.
load_all_messages(files) == files

(***************************************************************************)
(* Merge component: DataMerger                                             *)
(***************************************************************************)
\* A mutation of _create_dedup_key: rounds to the nearest minute.
create_dedup_key_nearest(msg) ==
    <<msg.model_name, sha256_hex16(msg.chain_of_thought),
      ((msg.timestamp + 30) \div 60) * 60>>

\* DataMerger._create_dedup_key: f"{model_name}:{content_hash}:{minute}".
\* The three parts have fixed shapes, so the string is the triple.
create_dedup_key(msg) ==
    <<msg.model_name, sha256_hex16(msg.chain_of_thought),
      ReplaceSecondZero(msg.timestamp)>>

\* Position of key in the insertion-ordered dict unique_messages (0: absent).
KeyIndex(unique, key) ==
    IF \E i \in 1..Len(unique) : unique[i].key = key
    THEN CHOOSE i \in 1..Len(unique) : unique[i].key = key
    ELSE 0

\* A mutation of ProcessMessage: a duplicate always replaces the stored record.
ProcessMessageLastWins(unique, msg, source_name, priority_source) ==
    LET key == create_dedup_key(msg)
        at == KeyIndex(unique, key)
        entry == [key |-> key, msg |-> msg, source |-> source_name]
    IN  IF at = 0 THEN Append(unique, entry)
        ELSE [unique EXCEPT ![at] = entry]

\* A mutation of ProcessMessage: a duplicate never replaces the stored record.
ProcessMessageFirstWins(unique, msg, source_name, priority_source) ==
    LET key == create_dedup_key(msg)
        at == KeyIndex(unique, key)
        entry == [key |-> key, msg |-> msg, source |-> source_name]
    IN  IF at = 0 THEN Append(unique, entry) ELSE unique

\* A mutation of ProcessMessage: the seen_keys test is dropped.
ProcessMessageNoSeen(unique, msg, source_name, priority_source) ==
    Append(unique, [key |-> create_dedup_key(msg), msg |-> msg, source |-> source_name])

\* Body of the inner loop of _deduplicate_messages. unique is the dict
\* unique_messages in insertion order; seen_keys is its key set.
ProcessMessage(unique, msg, source_name, priority_source) ==
    LET key == create_dedup_key(msg)
        at == KeyIndex(unique, key)
        entry == [key |-> key, msg |-> msg, source |-> source_name]
    IN  IF at = 0 THEN Append(unique, entry)
        ELSE IF source_name = priority_source
             THEN [unique EXCEPT ![at] = entry]
             ELSE unique

RECURSIVE ProcessSource(_, _, _, _)
ProcessSource(unique, messages, source_name, priority_source) ==
    IF messages = <<>> THEN unique
    ELSE ProcessSource(ProcessMessage(unique, Head(messages), source_name, priority_source),
                       Tail(messages), source_name, priority_source)

\* list.sort(key=timestamp, reverse=True) is stable: records of equal
\* timestamp keep their order.
RECURSIVE InsertNewestFirst(_, _)
InsertNewestFirst(sorted, m) ==
    IF sorted = <<>> THEN <<m>>
    ELSE IF Head(sorted).timestamp >= m.timestamp
         THEN <<Head(sorted)>> \o InsertNewestFirst(Tail(sorted), m)
         ELSE <<m>> \o sorted

\* A mutation of SortNewestFirst: reverse=True is lost.
RECURSIVE InsertOldestFirst(_, _)
InsertOldestFirst(sorted, m) ==
    IF sorted = <<>> THEN <<m>>
    ELSE IF Head(sorted).timestamp <= m.timestamp
         THEN <<Head(sorted)>> \o InsertOldestFirst(Tail(sorted), m)
         ELSE <<m>> \o sorted

RECURSIVE SortOldestFirst(_)
SortOldestFirst(msgs) ==
    IF msgs = <<>> THEN <<>>
    ELSE InsertOldestFirst(SortOldestFirst(SubSeq(msgs, 1, Len(msgs) - 1)), msgs[Len(msgs)])

RECURSIVE SortNewestFirst(_)
SortNewestFirst(msgs) ==
    IF msgs = <<>> THEN <<>>
    ELSE InsertNewestFirst(SortNewestFirst(SubSeq(msgs, 1, Len(msgs) - 1)), msgs[Len(msgs)])

\* The sources list: the priority source is processed first.
Sources(extension_messages, playwright_messages, priority_source) ==
    IF priority_source = "extension"
    THEN << <<extension_messages, "extension">>, <<playwright_messages, "playwright">> >>
    ELSE << <<playwright_messages, "playwright">>, <<extension_messages, "extension">> >>

\* The dict unique_messages after both loops.
UniqueMessages(extension_messages, playwright_messages, priority_source) ==
    LET sources == Sources(extension_messages, playwright_messages, priority_source)
        first == ProcessSource(<<>>, sources[1][1], sources[1][2], priority_source)
    IN  ProcessSource(first, sources[2][1], sources[2][2], priority_source)

\* DataMerger._deduplicate_messages
deduplicate_messages(extension_messages, playwright_messages, priority_source) ==
    LET unique == UniqueMessages(extension_messages, playwright_messages, priority_source)
    IN  SortNewestFirst([i \in 1..Len(unique) |-> unique[i].msg])

\* DataMerger.merge_all
merge_all(rows, files, priority_source) ==
    deduplicate_messages(read_all_messages(rows), load_all_messages(files), priority_source)

\* A mutation of get_merge_statistics: duplicates counted against one source.
GetMergeStatisticsOneSource(rows, files) ==
    LET result == merge_all(rows, files, "extension")
    IN  [extension_total |-> get_statistics_total(rows),
         playwright_total |-> Len(load_all_messages(files)),
         total_unique_messages |-> Len(result),
         duplicates_removed |-> get_statistics_total(rows) - Len(result)]

\* DataMerger.get_merge_statistics: merge_all() runs with its default
\* priority_source="extension".
get_merge_statistics(rows, files) ==
    LET result == merge_all(rows, files, "extension")
    IN  [extension_total |-> get_statistics_total(rows),
         playwright_total |-> Len(load_all_messages(files)),
         total_unique_messages |-> Len(result),
         duplicates_removed |->
             get_statistics_total(rows) + Len(load_all_messages(files)) - Len(result)]

(***************************************************************************)
(* Merge component: actions                                                *)
(***************************************************************************)
MergeIdle ==
    /\ ext_rows = <<>> /\ pw_files = <<>> /\ m_pc = "idle"
    /\ m_priority = NoValue /\ merged = <<>> /\ stats = NoValue

\* The extension stores a captured message as a row of model_chat
\* (message_hash is UNIQUE in the table).
ExtensionInsert(k) ==
    /\ m_pc = "idle"
    /\ Len(ext_rows) < MaxRows
    /\ ext_rows' = Append(ext_rows,
           [model_name |-> k.model_name, chain_of_thought |-> k.chain_of_thought,
            timestamp |-> k.timestamp, market_data |-> k.market_data,
            message_hash |-> <<"ext", Len(ext_rows) + 1>>])
    /\ UNCHANGED <<pw_files, m_pc, m_priority, merged, stats, xvars, svars, ivars, rvars, pvars, hvars, fvars>>

\* StorageManager.save_message writes one file per captured message.
PlaywrightSave(k) ==
    /\ m_pc = "idle"
    /\ Len(pw_files) < MaxFiles
    /\ pw_files' = Append(pw_files,
           [model_name |-> k.model_name, chain_of_thought |-> k.chain_of_thought,
            timestamp |-> k.timestamp, message_id |-> <<"pw", Len(pw_files) + 1>>])
    /\ UNCHANGED <<ext_rows, m_pc, m_priority, merged, stats, xvars, svars, ivars, rvars, pvars, hvars, fvars>>

MergeAll(priority_source) ==
    /\ m_pc = "idle"
    /\ merged' = merge_all(ext_rows, pw_files, priority_source)
    /\ m_priority' = priority_source
    /\ m_pc' = "merged"
    /\ UNCHANGED <<ext_rows, pw_files, stats, xvars, svars, ivars, rvars, pvars, hvars, fvars>>

GetMergeStatistics ==
    /\ m_pc = "idle"
    /\ stats' = get_merge_statistics(ext_rows, pw_files)
    /\ m_pc' = "stats"
    /\ UNCHANGED <<ext_rows, pw_files, m_priority, merged, xvars, svars, ivars, rvars, pvars, hvars, fvars>>

\* The call has returned; its result is dropped.
MergeReturn ==
    /\ m_pc \in {"merged", "stats"}
    /\ m_pc' = "idle" /\ m_priority' = NoValue /\ merged' = <<>> /\ stats' = NoValue
    /\ UNCHANGED <<ext_rows, pw_files, xvars, svars, ivars, rvars, pvars, hvars, fvars>>

NextMerge ==
    \/ \E k \in RowKinds : ExtensionInsert(k)
    \/ \E k \in MessageKinds : PlaywrightSave(k)
    \/ \E p \in {"extension", "playwright"} : MergeAll(p)
    \/ GetMergeStatistics
    \/ MergeReturn

(***************************************************************************)
(* Extraction component: texts                                             *)
(* A text is a sequence of tokens: GLYPH is the marker glyph, the three    *)
(* labels are the section names, NL a newline, SP a blank, "w" a run of    *)
(* other characters; on the snapshot path "MODEL" is one of the known      *)
(* model-name literals, "TS" a date/time token M/D HH:MM:SS of a real      *)
(* date, "TS_BAD" one that matches the pattern but is no date (13/45 ...). *)
(***************************************************************************)
GLYPH == ">"
USER_PROMPT == "USER_PROMPT"
CHAIN_OF_THOUGHT == "CHAIN_OF_THOUGHT"
TRADING_DECISIONS == "TRADING_DECISIONS"
FALLBACK_PROMPT == "Market data analysis at"

RowTokens == {GLYPH, USER_PROMPT, CHAIN_OF_THOUGHT, TRADING_DECISIONS, "NL", "SP", "w"}
SnapshotTokens == RowTokens \cup {"MODEL", "TS", "TS_BAD"}

RECURSIVE TextsUpTo(_, _)
TextsUpTo(tokens, n) ==
    IF n = 0 THEN {<<>>}
    ELSE LET shorter == TextsUpTo(tokens, n - 1)
         IN  shorter \cup {Append(t, c) : t \in shorter, c \in tokens}

\* raw_content of a row, and a browser snapshot.
RowTexts == TextsUpTo(RowTokens, MaxText)
SnapshotTexts == TextsUpTo(SnapshotTokens, MaxText)

\* The reasoning column of a row: NULL, empty, or a text.
ReasoningValues == {NoValue, <<>>, <<"w">>}

\* str.strip() characters among the tokens.
IsSpace(c) == c \in {"SP", "NL"}

RECURSIVE LStrip(_)
LStrip(s) == IF s # <<>> /\ IsSpace(Head(s)) THEN LStrip(Tail(s)) ELSE s

RECURSIVE RStrip(_)
RStrip(s) ==
    IF s # <<>> /\ IsSpace(s[Len(s)]) THEN RStrip(SubSeq(s, 1, Len(s) - 1)) ELSE s

\* str.strip()
Strip(s) == RStrip(LStrip(s))

\* Python truthiness of a str-or-None value.
Truthy(v) == v # NoValue /\ v # <<>>

\* Least element of a non-empty set of positions.
MinOf(S) == CHOOSE i \in S : \A j \in S : i <= j

\* End of the run of whitespace that starts at position i (i - 1: no run).
RECURSIVE SpaceRunEnd(_, _)
SpaceRunEnd(s, i) ==
    IF i <= Len(s) /\ IsSpace(s[i]) THEN SpaceRunEnd(s, i + 1) ELSE i - 1

\* Where "\s*\n" ends when matched from position i: the last newline of the
\* whitespace run starting at i (0: the run holds no newline, no match).
NewlineEnd(s, i) ==
    LET nls == {k \in i..SpaceRunEnd(s, i) : s[k] = "NL"}
    IN  IF nls = {} THEN 0 ELSE CHOOSE k \in nls : \A j \in nls : j <= k

\* Where the lazy "(.*?)(?=stop|$)" ends when it starts at position from: just
\* before the next stop token, else at the end of the text.
LazyEnd(s, from, stop) ==
    LET hits == {k \in from..Len(s) : s[k] = stop}
    IN  IF hits = {} THEN Len(s) ELSE MinOf(hits) - 1

(***************************************************************************)
(* Extraction component: ExtensionDataReader                               *)
(***************************************************************************)
\* Start positions at which rf"GLYPH\s*{name}\s*\n" matches.
GlyphMatches(content, section_name) ==
    {i \in 1..Len(content) :
        /\ content[i] = GLYPH
        /\ LET j == SpaceRunEnd(content, i + 1) + 1
           IN  /\ j <= Len(content)
               /\ content[j] = section_name
               /\ NewlineEnd(content, j + 1) # 0}

\* Start positions at which rf"{name}\s*\n" matches.
BareMatches(content, section_name) ==
    {j \in 1..Len(content) :
        content[j] = section_name /\ NewlineEnd(content, j + 1) # 0}

\* A mutation of reader_extract_section: the bare pattern is never tried.
ReaderExtractSectionGlyphOnly(content, section_name) ==
    IF GlyphMatches(content, section_name) # {}
    THEN LET i == MinOf(GlyphMatches(content, section_name))
             j == SpaceRunEnd(content, i + 1) + 1
             e == NewlineEnd(content, j + 1)
         IN  Strip(SubSeq(content, e + 1, LazyEnd(content, e + 1, GLYPH)))
    ELSE <<>>

\* ExtensionDataReader._extract_section: the glyph pattern, then the bare
\* pattern, whose lookahead is the section's own name.
reader_extract_section(content, section_name) ==
    IF GlyphMatches(content, section_name) # {}
    THEN LET i == MinOf(GlyphMatches(content, section_name))
             j == SpaceRunEnd(content, i + 1) + 1
             e == NewlineEnd(content, j + 1)
         IN  Strip(SubSeq(content, e + 1, LazyEnd(content, e + 1, GLYPH)))
    ELSE IF BareMatches(content, section_name) # {}
    THEN LET j == MinOf(BareMatches(content, section_name))
             e == NewlineEnd(content, j + 1)
         IN  Strip(SubSeq(content, e + 1, LazyEnd(content, e + 1, section_name)))
    ELSE <<>>

\* A mutation of row_to_model_message: a row without reasoning text raises.
RowToModelMessageStrict(row) ==
    LET raw_content == IF Truthy(row.raw_content) THEN row.raw_content ELSE <<>>
        section == reader_extract_section(raw_content, CHAIN_OF_THOUGHT)
    IN  IF section = <<>> \/ row.market_data = "array"
        THEN [kind |-> "exception"]
        ELSE [kind |-> "message",
              user_prompt |-> reader_extract_section(raw_content, USER_PROMPT),
              chain_of_thought |-> section,
              trading_decisions_text |->
                  reader_extract_section(raw_content, TRADING_DECISIONS)]

\* ExtensionDataReader._row_to_model_message: the ModelMessage of a row, or the
\* exception ModelMessage raises (market_data that is no dict).
row_to_model_message(row) ==
    LET raw_content == IF Truthy(row.raw_content) THEN row.raw_content ELSE <<>>
        user_prompt == reader_extract_section(raw_content, USER_PROMPT)
        section == reader_extract_section(raw_content, CHAIN_OF_THOUGHT)
        trading_decisions_text == reader_extract_section(raw_content, TRADING_DECISIONS)
        chain_of_thought ==
            IF section # <<>> THEN section
            ELSE IF Truthy(row.reasoning) THEN row.reasoning
            ELSE IF Truthy(raw_content) THEN raw_content
            ELSE <<>>
    IN  IF row.market_data = "array"
        THEN [kind |-> "exception"]
        ELSE [kind |-> "message",
              user_prompt |-> IF user_prompt # <<>> THEN user_prompt
                              ELSE <<FALLBACK_PROMPT>>,
              chain_of_thought |-> chain_of_thought,
              trading_decisions_text |-> trading_decisions_text]

\* One iteration of the loop of read_all_messages: the message is appended, or
\* the exception is caught, printed, and the row skipped.
read_row(row) ==
    LET r == row_to_model_message(row)
    IN  IF r.kind = "exception" THEN [kind |-> "skipped"] ELSE r

(***************************************************************************)
(* Extraction component: ChainExtractor                                    *)
(***************************************************************************)
\* str(snapshot_data) of the dict {"raw": snapshot}: the repr of a dict, in
\* which a newline of the snapshot is the two characters backslash, n.
SnapshotRepr(snapshot) ==
    <<"{'raw': '">>
    \o [i \in 1..Len(snapshot) |-> IF snapshot[i] = "NL" THEN "\\n" ELSE snapshot[i]]
    \o <<"'}">>

\* ChainExtractor._extract_model_name: match.group(0).title(), or None.
extract_model_name(text) ==
    IF \E i \in 1..Len(text) : text[i] = "MODEL" THEN "Model" ELSE NoValue

\* ChainExtractor._extract_timestamp: the first token of the date/time shape;
\* datetime(year, month, day, ...) raises ValueError when it is no date.
extract_timestamp(text) ==
    LET hits == {i \in 1..Len(text) : text[i] \in {"TS", "TS_BAD"}}
    IN  IF hits = {} THEN NoValue
        ELSE IF text[MinOf(hits)] = "TS_BAD" THEN "ValueError"
        ELSE "datetime"

\* re.sub(rf"GLYPH\s*{name}", "", content)
RECURSIVE SubGlyphLabel(_, _)
SubGlyphLabel(content, section_name) ==
    IF content = <<>> THEN <<>>
    ELSE LET j == SpaceRunEnd(content, 2) + 1
         IN  IF /\ Head(content) = GLYPH
                /\ j <= Len(content)
                /\ content[j] = section_name
             THEN SubGlyphLabel(SubSeq(content, j + 1, Len(content)), section_name)
             ELSE <<Head(content)>> \o SubGlyphLabel(Tail(content), section_name)

\* ChainExtractor._extract_section: rf"{name}.*?(?=GLYPH|$)", group(0), so the
\* content starts with the label itself.
extractor_extract_section(text, section_name) ==
    LET hits == {j \in 1..Len(text) : text[j] = section_name}
    IN  IF hits = {} THEN <<>>
        ELSE LET j == MinOf(hits)
                 content == SubSeq(text, j, LazyEnd(text, j, GLYPH))
             IN  Strip(SubGlyphLabel(content, section_name))

\* A mutation of ExtractFromSnapshotBody: the chain-of-thought gate is missing.
ExtractFromSnapshotNoGate(snapshot_data) ==
    LET text == SnapshotRepr(snapshot_data)
        model_name == extract_model_name(text)
        timestamp == extract_timestamp(text)
    IN  IF timestamp = "ValueError" THEN [kind |-> "exception"]
        ELSE IF model_name = NoValue \/ timestamp = NoValue
        THEN [kind |-> "none", why |-> "header"]
        ELSE [kind |-> "message",
              user_prompt |-> extractor_extract_section(text, USER_PROMPT),
              chain_of_thought |-> extractor_extract_section(text, CHAIN_OF_THOUGHT),
              trading_decisions_text |->
                  extractor_extract_section(text, TRADING_DECISIONS)]

\* The try block of ChainExtractor.extract_from_snapshot.
ExtractFromSnapshotBody(snapshot_data) ==
    LET text == SnapshotRepr(snapshot_data)
        model_name == extract_model_name(text)
        timestamp == extract_timestamp(text)
        chain_of_thought == extractor_extract_section(text, CHAIN_OF_THOUGHT)
    IN  IF timestamp = "ValueError" THEN [kind |-> "exception"]
        ELSE IF model_name = NoValue \/ timestamp = NoValue
        THEN [kind |-> "none", why |-> "header"]
        ELSE IF chain_of_thought = <<>>
        THEN [kind |-> "none", why |-> "chain_of_thought"]
        ELSE [kind |-> "message",
              user_prompt |-> extractor_extract_section(text, USER_PROMPT),
              chain_of_thought |-> chain_of_thought,
              trading_decisions_text |->
                  extractor_extract_section(text, TRADING_DECISIONS)]

\* A mutation of extract_from_snapshot: the except clause is missing.
ExtractFromSnapshotNoExcept(snapshot_data) ==
    LET r == ExtractFromSnapshotBody(snapshot_data)
    IN  IF r.kind = "exception" THEN [kind |-> "raised"] ELSE r

\* ChainExtractor.extract_from_snapshot: any exception is caught and None
\* returned.
extract_from_snapshot(snapshot_data) ==
    LET r == ExtractFromSnapshotBody(snapshot_data)
    IN  IF r.kind = "exception" THEN [kind |-> "none", why |-> "exception"] ELSE r

(***************************************************************************)
(* Extraction component: actions                                           *)
(***************************************************************************)
\* read_all_messages handles one row of model_chat.
ReadRow(raw_content, reasoning, market_data) ==
    /\ x_path = "none"
    /\ x_path' = "extension"
    /\ x_raw' = raw_content
    /\ x_reasoning' = reasoning
    /\ x_out' = read_row([raw_content |-> raw_content, reasoning |-> reasoning,
                          market_data |-> market_data])
    /\ UNCHANGED <<mvars, svars, ivars, rvars, pvars, hvars, fvars>>

\* NOF1Scraper.process_snapshot handles one browser snapshot.
ProcessSnapshot(snapshot) ==
    /\ x_path = "none"
    /\ x_path' = "playwright"
    /\ x_raw' = snapshot
    /\ x_reasoning' = NoValue
    /\ x_out' = extract_from_snapshot(snapshot)
    /\ UNCHANGED <<mvars, svars, ivars, rvars, pvars, hvars, fvars>>

\* The call has returned.
ExtractReturn ==
    /\ x_path # "none"
    /\ x_path' = "none" /\ x_raw' = <<>> /\ x_reasoning' = NoValue
    /\ x_out' = [kind |-> "none"]
    /\ UNCHANGED <<mvars, svars, ivars, rvars, pvars, hvars, fvars>>

NextExtract ==
    \/ /\ x_path = "none"
       /\ \E raw_content \in RowTexts, reasoning \in ReasoningValues,
             market_data \in {"object", "array"} :
                 ReadRow(raw_content, reasoning, market_data)
    \/ /\ x_path = "none"
       /\ \E snapshot \in SnapshotTexts : ProcessSnapshot(snapshot)
    \/ ExtractReturn

(***************************************************************************)
(* Identification component: data                                          *)
(* A row of structured_reasoning JOIN model_chat.  A nullable column is    *)
(* NULL or Some(v): reasoning carries the length of its text,              *)
(* entry_indicators the list its JSON text decodes to (JsonInvalid: text   *)
(* json.loads rejects), risk_management the set of the five keywords its   *)
(* text contains.  exit_type and confidence_level are strings or NoValue.  *)
(***************************************************************************)
NULL == {}
Some(v) == {v}
ValueOf(column) == CHOOSE v \in column : TRUE
JsonList(list) == Some([valid |-> TRUE, list |-> list])
JsonInvalid == Some([valid |-> FALSE, list |-> <<>>])

Indicators == {"rsi", "macd", "obv"}
ExitTypes == {"take_profit", "stop_loss", "trailing"}
ConfidenceLevels == {"high", "low", "medium"}
Keywords == {"stop loss", "position size", "risk", "drawdown", "hedge"}

KnownRowKinds ==
    { [model_name |-> m, reasoning |-> Some(4),
       entry_indicators |-> JsonList(<<"rsi">>),
       exit_type |-> "take_profit", confidence_level |-> "high",
       risk_management |-> Some({"risk"})] : m \in ModelNames }
    \cup { [model_name |-> m, reasoning |-> NULL, entry_indicators |-> NULL,
            exit_type |-> NoValue, confidence_level |-> NoValue,
            risk_management |-> NULL] : m \in ModelNames }
    \cup { [model_name |-> m, reasoning |-> Some(2),
            entry_indicators |-> JsonList(<<"rsi", "macd">>),
            exit_type |-> "stop_loss", confidence_level |-> "low",
            risk_management |-> Some({"stop loss", "hedge"})] : m \in ModelNames }
    \cup { [model_name |-> m, reasoning |-> Some(4), entry_indicators |-> NULL,
            exit_type |-> "take_profit", confidence_level |-> NoValue,
            risk_management |-> Some({})] : m \in ModelNames }

UnknownKinds ==
    [reasoning : {NULL, Some(0), Some(3), Some(10)},
     entry_indicators : {NULL, JsonList(<<>>), JsonList(<<"rsi">>),
                         JsonList(<<"rsi", "obv">>), JsonInvalid},
     exit_type : {NoValue, "take_profit", "trailing"},
     confidence_level : {NoValue, "high", "medium"},
     risk_management : {NULL, Some({}), Some({"risk"}), Some({"risk", "drawdown"})}]

\* Weights of the five sub-scores, in hundredths.
W_LENGTH == 30
W_INDICATORS == 25
W_EXIT == 15
W_CONFIDENCE == 15
W_RISK == 15

(***************************************************************************)
(* Identification component: _build_fingerprints                           *)
(***************************************************************************)
\* The fingerprint created at the first row of a model.
NewFingerprint(model) ==
    [model |-> model,
     length_sum |-> 0,
     entry_indicators |-> [i \in Indicators |-> 0],
     exit_types |-> [e \in ExitTypes |-> 0],
     confidence_levels |-> [c \in ConfidenceLevels |-> 0],
     risk_keywords |-> [k \in Keywords |-> 0],
     total_messages |-> 0]

\* len(row['reasoning'] or '')
ReasoningLength(row) == IF row.reasoning = NULL THEN 0 ELSE ValueOf(row.reasoning)

\* Counter after "for ind in indicators: counter[ind] += 1".
CountIndicators(counter, indicators) ==
    [i \in Indicators |->
        counter[i] + Cardinality({n \in 1..Len(indicators) : indicators[n] = i})]

\* Body of the row loop of _build_fingerprints on the fingerprint of the row's
\* model.
AddRow(fp, row) ==
    [model |-> fp.model,
     total_messages |-> fp.total_messages + 1,
     length_sum |-> fp.length_sum + ReasoningLength(row),
     entry_indicators |->
         IF row.entry_indicators \in {NULL, JsonInvalid} THEN fp.entry_indicators
         ELSE CountIndicators(fp.entry_indicators, ValueOf(row.entry_indicators).list),
     exit_types |->
         IF row.exit_type = NoValue THEN fp.exit_types
         ELSE [fp.exit_types EXCEPT ![row.exit_type] = @ + 1],
     confidence_levels |->
         IF row.confidence_level = NoValue THEN fp.confidence_levels
         ELSE [fp.confidence_levels EXCEPT ![row.confidence_level] = @ + 1],
     risk_keywords |->
         IF row.risk_management = NULL THEN fp.risk_keywords
         ELSE [k \in Keywords |->
                  IF k \in ValueOf(row.risk_management) THEN fp.risk_keywords[k] + 1
                  ELSE fp.risk_keywords[k]]]

\* Position of a model in the dict fingerprints, kept in insertion order
\* (0: absent).
ModelIndex(fingerprints, model) ==
    IF \E i \in 1..Len(fingerprints) : fingerprints[i].model = model
    THEN CHOOSE i \in 1..Len(fingerprints) : fingerprints[i].model = model
    ELSE 0

\* One iteration of "for row in cursor.fetchall()".
FoldRow(fingerprints, row) ==
    LET at == ModelIndex(fingerprints, row.model_name)
    IN  IF at = 0
        THEN Append(fingerprints, AddRow(NewFingerprint(row.model_name), row))
        ELSE [fingerprints EXCEPT ![at] = AddRow(@, row)]

\* fp.get('avg_length'): avg_length = length_sum / total_messages is set for
\* every model and is truthy when it is not 0.
HasAvgLength(fp) == fp.length_sum > 0

\* Keys of a Counter: the values counted at least once.
CounterKeys(counter) == {k \in DOMAIN counter : counter[k] > 0}

(***************************************************************************)
(* Identification component: match_unknown_message                         *)
(* Scores are exact fractions num/den; a sub-score is n/d with its weight  *)
(* w, and included says whether the component entered the aggregate.       *)
(***************************************************************************)
Omitted == [included |-> FALSE, w |-> 0, n |-> 0, d |-> 1]

Abs(x) == IF x < 0 THEN -x ELSE x
Max0(x) == IF x < 0 THEN 0 ELSE x

\* len(unknown_data.get('reasoning', '')) raises TypeError on None.
LengthRaises(fp, unknown) == HasAvgLength(fp) /\ unknown.reasoning = NULL

\* 1. max(0, 1 - |len - avg| / avg), with avg = length_sum / total_messages.
LengthComponent(fp, unknown) ==
    IF HasAvgLength(fp)
    THEN [included |-> TRUE, w |-> W_LENGTH,
          n |-> Max0(fp.length_sum
                     - Abs(ValueOf(unknown.reasoning) * fp.total_messages
                           - fp.length_sum)),
          d |-> fp.length_sum]
    ELSE Omitted

\* 2. indicator_matches / len(unknown_inds); json.loads failing is swallowed.
IndicatorComponent(fp, unknown) ==
    IF unknown.entry_indicators \in {NULL, JsonInvalid, JsonList(<<>>)}
    THEN Omitted
    ELSE LET unknown_inds == ValueOf(unknown.entry_indicators).list
         IN  [included |-> TRUE, w |-> W_INDICATORS,
              n |-> Cardinality({i \in 1..Len(unknown_inds) :
                        unknown_inds[i] \in CounterKeys(fp.entry_indicators)}),
              d |-> Len(unknown_inds)]

\* 3. exit_types[exit_type] / total_messages
ExitComponent(fp, unknown) ==
    IF /\ unknown.exit_type # NoValue
       /\ CounterKeys(fp.exit_types) # {}
       /\ unknown.exit_type \in CounterKeys(fp.exit_types)
    THEN [included |-> TRUE, w |-> W_EXIT,
          n |-> fp.exit_types[unknown.exit_type], d |-> fp.total_messages]
    ELSE Omitted

\* 4. confidence_levels[confidence_level] / total_messages
ConfidenceComponent(fp, unknown) ==
    IF /\ unknown.confidence_level # NoValue
       /\ CounterKeys(fp.confidence_levels) # {}
       /\ unknown.confidence_level \in CounterKeys(fp.confidence_levels)
    THEN [included |-> TRUE, w |-> W_CONFIDENCE,
          n |-> fp.confidence_levels[unknown.confidence_level],
          d |-> fp.total_messages]
    ELSE Omitted

\* 5. keyword_matches / len(fp['risk_keywords'])
RiskComponent(fp, unknown) ==
    LET keyword_matches ==
            IF unknown.risk_management = NULL THEN 0
            ELSE Cardinality(ValueOf(unknown.risk_management)
                             \cap CounterKeys(fp.risk_keywords))
    IN  IF /\ unknown.risk_management \notin {NULL, Some({})}
           /\ CounterKeys(fp.risk_keywords) # {}
           /\ keyword_matches > 0
        THEN [included |-> TRUE, w |-> W_RISK,
              n |-> keyword_matches, d |-> Cardinality(CounterKeys(fp.risk_keywords))]
        ELSE Omitted

\* "score += sub * weight; weights_sum += weight" on the fraction score.
AddComponent(acc, c) ==
    IF c.included
    THEN [num |-> acc.num * c.d + c.w * c.n * acc.den,
          den |-> acc.den * c.d,
          weights_sum |-> acc.weights_sum + c.w]
    ELSE acc

\* Body of "for model, fp in self.model_fingerprints.items()" when nothing
\* raises: scores[model] = score / weights_sum, or 0.0.
ScoreModel(fp, unknown) ==
    LET acc == AddComponent(AddComponent(AddComponent(AddComponent(AddComponent(
                   [num |-> 0, den |-> 1, weights_sum |-> 0],
                   LengthComponent(fp, unknown)),
                   IndicatorComponent(fp, unknown)),
                   ExitComponent(fp, unknown)),
                   ConfidenceComponent(fp, unknown)),
                   RiskComponent(fp, unknown))
    IN  IF acc.weights_sum > 0
        THEN [model |-> fp.model, num |-> acc.num, den |-> acc.den * acc.weights_sum]
        ELSE [model |-> fp.model, num |-> 0, den |-> 1]

\* ModelIdentifier.match_unknown_message up to "Return best match": the dict
\* scores, or the TypeError that leaves the function.
match_unknown_message(fingerprints, unknown) ==
    IF \E i \in 1..Len(fingerprints) : LengthRaises(fingerprints[i], unknown)
    THEN [outcome |-> "TypeError", scores |-> <<>>]
    ELSE [outcome |-> "ok",
          scores |-> [i \in 1..Len(fingerprints) |-> ScoreModel(fingerprints[i], unknown)]]

\* a/b < c/d for fractions with positive denominators.
ScoreLess(x, y) == x.num * y.den < y.num * x.den

\* "Return best match": max(scores.items(), key=lambda x: x[1]) is the first
\* item, in the insertion order of the dict, that no other item exceeds;
\* ("unknown", 0.0) for an empty dict.
best_match(model_scores) ==
    IF model_scores = <<>> THEN [model |-> "unknown", num |-> 0, den |-> 1]
    ELSE LET top == {i \in 1..Len(model_scores) :
                        \A j \in 1..Len(model_scores) :
                            ~ ScoreLess(model_scores[i], model_scores[j])}
         IN  model_scores[CHOOSE i \in top : \A j \in top : i <= j]

(***************************************************************************)
(* Identification component: actions                                       *)
(***************************************************************************)
\* _build_fingerprints reads one more known-model row.
BuildRow(row) ==
    /\ s_pc = "build"
    /\ known_rows < MaxKnown
    /\ known_rows' = known_rows + 1
    /\ model_fingerprints' = FoldRow(model_fingerprints, row)
    /\ UNCHANGED <<s_pc, unknown_data, scores, s_outcome, best, mvars, xvars, ivars, rvars, pvars, hvars, fvars>>

\* _build_fingerprints returns; the fingerprints are read-only from here on.
BuildDone ==
    /\ s_pc = "build"
    /\ s_pc' = "ready"
    /\ UNCHANGED <<known_rows, model_fingerprints, unknown_data, scores, s_outcome,
                   best, mvars, xvars, ivars, rvars, pvars, hvars, fvars>>

\* identify_all_unknown scores one unknown-model row.
MatchUnknown(unknown) ==
    /\ s_pc = "ready"
    /\ LET r == match_unknown_message(model_fingerprints, unknown)
       IN  /\ scores' = r.scores
           /\ s_outcome' = r.outcome
           /\ best' = IF r.outcome = "ok" THEN best_match(r.scores) ELSE NoValue
    /\ unknown_data' = unknown
    /\ s_pc' = "matched"
    /\ UNCHANGED <<known_rows, model_fingerprints, mvars, xvars, ivars, rvars, pvars, hvars, fvars>>

\* The call has returned (or its exception has ended the run).
MatchReturn ==
    /\ s_pc = "matched"
    /\ s_pc' = "ready" /\ unknown_data' = NoValue /\ scores' = <<>>
    /\ s_outcome' = "none" /\ best' = NoValue
    /\ UNCHANGED <<known_rows, model_fingerprints, mvars, xvars, ivars, rvars, pvars, hvars, fvars>>

NextScore ==
    \/ \E row \in KnownRowKinds : BuildRow(row)
    \/ BuildDone
    \/ /\ s_pc = "ready"
       /\ \E unknown \in UnknownKinds : MatchUnknown(unknown)
    \/ MatchReturn

(***************************************************************************)
(* Identification run: identify_all_unknown, update_database, main         *)
(***************************************************************************)
\* The unknown-model rows of a run.
IdentifyKinds ==
    { [reasoning |-> Some(3), entry_indicators |-> NULL, exit_type |-> "take_profit",
       confidence_level |-> NoValue, risk_management |-> NULL],
      [reasoning |-> NULL, entry_indicators |-> NULL, exit_type |-> NoValue,
       confidence_level |-> NoValue, risk_management |-> NULL],
      [reasoning |-> Some(3), entry_indicators |-> JsonList(<<"rsi", "obv">>),
       exit_type |-> NoValue, confidence_level |-> NoValue, risk_management |-> NULL] }

\* --confidence-threshold, in hundredths; its default.
DEFAULT_THRESHOLD == 50
Thresholds == {0, DEFAULT_THRESHOLD, 100}

\* full_json as save_structured_data writes it: a JSON object, here without
\* the two keys update_database sets.
ExtractedJson == [original_model |-> NoValue, identification_confidence |-> NULL]

\* SQLite's json_set on the path '$.key'.
json_set(json, key, value) == [json EXCEPT ![key] = value]

\* UPDATE ... SET c1 = e1, ..., cn = en on one row: every expression reads the
\* row as it was before the statement, and of several assignments to one
\* column SQLite keeps the rightmost and ignores the others.
sql_update(row, assignments) ==
    [c \in DOMAIN row |->
        LET at == {k \in 1..Len(assignments) : assignments[k].column = c}
        IN  IF at = {} THEN row[c]
            ELSE assignments[CHOOSE k \in at : \A j \in at : j <= k].value]

\* The UPDATE statement of update_database for one identification.
UpdateStatement(table, ident) ==
    [k \in 1..Len(table) |->
        IF table[k].message_id = ident.message_id
        THEN sql_update(table[k],
                 << [column |-> "model_name", value |-> ident.identified_as],
                    [column |-> "full_json",
                     value |-> json_set(table[k].full_json, "original_model",
                                        "unknown-model")],
                    [column |-> "full_json",
                     value |-> json_set(table[k].full_json, "identification_confidence",
                                        Some(ident.confidence))] >>)
        ELSE table[k]]

RECURSIVE UpdateAll(_, _)
UpdateAll(table, identifications) ==
    IF identifications = <<>> THEN table
    ELSE UpdateAll(UpdateStatement(table, Head(identifications)), Tail(identifications))

\* A mutation of update_database: the dry_run argument is not looked at.
UpdateDatabaseAlways(table, identifications, dry_run) ==
    UpdateAll(table, identifications)

\* ModelIdentifier.update_database
update_database(table, identifications, dry_run) ==
    IF dry_run THEN table ELSE UpdateAll(table, identifications)

\* A mutation of Accepts: the score has to exceed the threshold.
AcceptsAbove(confidence, threshold) == confidence.num * 100 > threshold * confidence.den

\* confidence >= confidence_threshold
Accepts(confidence, threshold) == confidence.num * 100 >= threshold * confidence.den

\* results before the loop of identify_all_unknown.
NewResults ==
    [total_unknown |-> 0, identified |-> 0, unidentified |-> 0,
     by_identified_model |-> [m \in ModelNames \cup {"unknown"} |-> 0],
     identifications |-> <<>>]

\* A mutation of CountRow: the row is not counted.
CountRowSkipped(res) == res

\* results['total_unknown'] += 1, first statement of the loop body.
CountRow(res) == [res EXCEPT !.total_unknown = @ + 1]

\* One unknown-model row is stored by the extraction workflow.
StoreUnknown(kind) ==
    /\ i_pc = "store"
    /\ Len(i_table) < MaxUnknown
    /\ i_table' = Append(i_table,
           [message_id |-> Len(i_table) + 1, model_name |-> "unknown-model",
            full_json |-> ExtractedJson, data |-> kind])
    /\ UNCHANGED <<i_pc, i_before, i_threshold, i_next, results, i_caller, i_request,
                   mvars, xvars, svars, rvars, pvars, hvars, fvars>>

\* main parses its arguments and calls identify_all_unknown on the built
\* fingerprints.
IdentifyStart(threshold) ==
    /\ i_pc = "store" /\ s_pc = "ready"
    /\ i_pc' = "loop" /\ i_threshold' = threshold /\ i_next' = 1
    /\ i_before' = i_table /\ results' = NewResults
    /\ UNCHANGED <<i_table, i_caller, i_request, mvars, xvars, svars, rvars, pvars, hvars, fvars>>

\* One iteration of "for row in cursor.fetchall()" of identify_all_unknown.
IdentifyRow ==
    /\ i_pc = "loop" /\ i_next <= Len(i_table)
    /\ LET row == i_table[i_next]
           r == match_unknown_message(model_fingerprints, row.data)
           match == best_match(r.scores)
           counted == CountRow(results)
       IN  IF r.outcome = "TypeError"
           THEN /\ i_pc' = "raised"
                /\ results' = NoValue
                /\ UNCHANGED i_next
           ELSE /\ results' =
                     IF Accepts(match, i_threshold)
                     THEN [counted EXCEPT
                              !.identified = @ + 1,
                              !.by_identified_model[match.model] = @ + 1,
                              !.identifications = Append(@,
                                  [message_id |-> row.message_id,
                                   identified_as |-> match.model,
                                   confidence |-> [num |-> match.num, den |-> match.den]])]
                     ELSE [counted EXCEPT !.unidentified = @ + 1]
                /\ i_next' = i_next + 1
                /\ UNCHANGED i_pc
    /\ UNCHANGED <<i_table, i_before, i_threshold, i_caller, i_request,
                   mvars, xvars, svars, rvars, pvars, hvars, fvars>>

\* identify_all_unknown has returned.  main calls update_database with
\* dry_run=False when there are identifications and --update-database was
\* given; a caller of the API passes its results with dry_run left at its
\* default True unless it asks for the update.
ApplyResults(caller, request) ==
    /\ i_pc = "loop" /\ i_next > Len(i_table)
    /\ i_pc' = "done" /\ i_caller' = caller /\ i_request' = request
    /\ i_table' =
          IF caller = "main"
          THEN IF results.identifications # <<>> /\ request
               THEN update_database(i_table, results.identifications, FALSE)
               ELSE i_table
          ELSE update_database(i_table, results.identifications, ~ request)
    /\ UNCHANGED <<i_before, i_threshold, i_next, results, mvars, xvars, svars, rvars, pvars, hvars, fvars>>

NextIdentify ==
    \/ \E row \in KnownRowKinds : BuildRow(row)
    \/ BuildDone
    \/ \E kind \in IdentifyKinds : StoreUnknown(kind)
    \/ \E threshold \in Thresholds : IdentifyStart(threshold)
    \/ IdentifyRow
    \/ \E caller \in {"main", "api"}, request \in BOOLEAN : ApplyResults(caller, request)

(***************************************************************************)
(* LLM extraction batch: extract_reasoning and process_messages            *)
(***************************************************************************)
\* Default of the parameter max_retries.
MAX_RETRIES == 3

\* What one call of client.messages.create can end in, by except clause.
FatalErrors == {"NotFoundError", "AuthenticationError"}
TransientErrors == {"RateLimitError", "APIConnectionError", "InternalServerError"}
SkippedErrors == {"JSONDecodeError", "APIError", "Exception"}

\* Multiplier of the wait time of a transient error, in seconds.
BackoffBase(error) ==
    CASE error = "RateLimitError" -> 2
      [] error = "APIConnectionError" -> 1
      [] error = "InternalServerError" -> 3

\* wait_time = (2 ** attempt) * base
wait_time(error, attempt) == (2 ^ attempt) * BackoffBase(error)

\* A mutation of RetriesLeft: one attempt too many.
RetriesLeftOneMore(attempt) == attempt < MAX_RETRIES

\* if attempt < max_retries - 1
RetriesLeft(attempt) == attempt < MAX_RETRIES - 1

\* A mutation of AfterFatal: the error is logged and the message skipped.
AfterFatalSkip == "failed"

\* "raise" in the except clauses of the fatal errors.
AfterFatal == "fatal"

\* The tail of one iteration of process_messages once extract_reasoning has
\* returned: save or log, then sleep unless this was the last message.
EndOfMessage(saved) ==
    /\ r_status' = [r_status EXCEPT ![r_i] = IF saved THEN "saved" ELSE "failed"]
    /\ success_count' = IF saved THEN success_count + 1 ELSE success_count
    /\ error_count' = IF saved THEN error_count ELSE error_count + 1
    /\ error_log' = IF saved THEN error_log ELSE Append(error_log, r_i)
    /\ r_pauses' = IF r_i < r_total THEN r_pauses + 1 ELSE r_pauses
    /\ r_i' = r_i + 1
    /\ r_attempt' = 0
    /\ r_pc' = IF r_i < r_total THEN "running" ELSE "finished"

\* process_messages starts on a list of messages (main returns before it on an
\* empty list).
StartBatch(total) ==
    /\ r_pc = "idle"
    /\ r_pc' = "running" /\ r_total' = total /\ r_i' = 1 /\ r_attempt' = 0
    /\ r_calls' = [k \in 1..total |-> 0]
    /\ r_waits' = [k \in 1..total |-> <<>>]
    /\ r_status' = [k \in 1..total |-> "pending"]
    /\ UNCHANGED <<r_last, r_pauses, success_count, error_count, error_log,
                   mvars, xvars, svars, ivars, pvars, hvars, fvars>>

\* The API call returns text holding a JSON object: extract_reasoning returns
\* it and process_messages saves it.
CallSucceeds ==
    /\ r_pc = "running"
    /\ r_calls' = [r_calls EXCEPT ![r_i] = @ + 1]
    /\ r_last' = "ok"
    /\ EndOfMessage(TRUE)
    /\ UNCHANGED <<r_total, r_waits, mvars, xvars, svars, ivars, pvars, hvars, fvars>>

\* The response is not JSON, or the call raises an error of no retried class:
\* extract_reasoning returns None at once.
CallSkipped(error) ==
    /\ r_pc = "running"
    /\ r_calls' = [r_calls EXCEPT ![r_i] = @ + 1]
    /\ r_last' = error
    /\ EndOfMessage(FALSE)
    /\ UNCHANGED <<r_total, r_waits, mvars, xvars, svars, ivars, pvars, hvars, fvars>>

\* The API call returns JSON text of a falsy value ({}, null, [], 0):
\* extract_reasoning returns it and `if extracted:` takes the error branch.
CallReturnsEmpty ==
    /\ r_pc = "running"
    /\ r_calls' = [r_calls EXCEPT ![r_i] = @ + 1]
    /\ r_last' = "empty"
    /\ EndOfMessage(FALSE)
    /\ UNCHANGED <<r_total, r_waits, mvars, xvars, svars, ivars, pvars, hvars, fvars>>

\* The API call returns JSON text of a value save_structured_data cannot
\* store: a non-empty list (no .get: AttributeError) or an object with a list
\* or object in a TEXT column (sqlite3 cannot bind it).  The exception leaves
\* save_structured_data before its commit and process_messages has no
\* handler: no row, no count, no summary, and the error log is not written.
CallReturnsUnsavable ==
    /\ r_pc = "running"
    /\ r_calls' = [r_calls EXCEPT ![r_i] = @ + 1]
    /\ r_last' = "unsavable"
    /\ r_status' = [r_status EXCEPT ![r_i] = "unsaved"]
    /\ r_pc' = "raised"
    /\ UNCHANGED <<r_i, r_attempt, r_pauses, success_count, error_count, error_log>>
    /\ UNCHANGED <<r_total, r_waits, mvars, xvars, svars, ivars, pvars, hvars, fvars>>

\* The call raises a fatal error: extract_reasoning re-raises, the exception
\* leaves process_messages and main exits.
CallFatal(error) ==
    /\ r_pc = "running"
    /\ r_calls' = [r_calls EXCEPT ![r_i] = @ + 1]
    /\ r_last' = error
    /\ IF AfterFatal = "fatal"
       THEN /\ r_status' = [r_status EXCEPT ![r_i] = "fatal"]
            /\ r_pc' = "aborted"
            /\ UNCHANGED <<r_i, r_attempt, r_pauses, success_count, error_count, error_log>>
       ELSE EndOfMessage(FALSE)
    /\ UNCHANGED <<r_total, r_waits, mvars, xvars, svars, ivars, pvars, hvars, fvars>>

\* The call raises a transient error: sleep and try again while attempts are
\* left, else return None.
CallTransient(error) ==
    /\ r_pc = "running"
    /\ r_calls' = [r_calls EXCEPT ![r_i] = @ + 1]
    /\ r_last' = error
    /\ IF RetriesLeft(r_attempt)
       THEN /\ r_waits' = [r_waits EXCEPT ![r_i] = Append(@, wait_time(error, r_attempt))]
            /\ r_attempt' = r_attempt + 1
            /\ UNCHANGED <<r_pc, r_i, r_status, r_pauses, success_count, error_count,
                           error_log>>
       ELSE /\ EndOfMessage(FALSE)
            /\ UNCHANGED r_waits
    /\ UNCHANGED <<r_total, mvars, xvars, svars, ivars, pvars, hvars, fvars>>

NextRetry ==
    \/ \E total \in 1..MaxMessages : StartBatch(total)
    \/ CallSucceeds
    \/ CallReturnsEmpty
    \/ CallReturnsUnsavable
    \/ \E error \in SkippedErrors : CallSkipped(error)
    \/ \E error \in FatalErrors : CallFatal(error)
    \/ \E error \in TransientErrors : CallTransient(error)

(***************************************************************************)
(* Decision parsing: data                                                  *)
(* A decisions text is the sequence of its non-blank, stripped lines.  A   *)
(* line has a shape: "caps" (capital letters only), "lower", "percent"     *)
(* (digits and %), "quantity" (QUANTITY: and a decimal number); n is the   *)
(* number of a percent line and the value, in hundredths, of a quantity    *)
(* line.  Confidences are in hundredths.                                   *)
(***************************************************************************)
Line(shape, text, n) == [shape |-> shape, text |-> text, n |-> n]

SymbolLines == {Line("caps", "SOL", 0), Line("caps", "ETH", 0)}
ActionLines == {Line("caps", "HOLD", 0), Line("caps", "BUY", 0)}
PercentLines == {Line("percent", "65%", 65), Line("percent", "150%", 150)}
QuantityLines == {Line("quantity", "QUANTITY: 25.7", 2570),
                  Line("quantity", "QUANTITY: -2.49", -249)}
\* Lines that match the QUANTITY label pattern of the scanner but whose token
\* is no number: float() raises ValueError on "1.2.3" and on "-".
MalformedQuantityLines == {Line("malformed", "QUANTITY: 1.2.3", 0),
                           Line("malformed", "QUANTITY: -", 0)}
DecisionLines ==
    SymbolLines \cup ActionLines \cup PercentLines \cup QuantityLines
    \cup {Line("lower", "sell", 0)}

\* Free texts of up to MaxLines lines.
RECURSIVE LinesUpTo(_)
LinesUpTo(n) ==
    IF n = 0 THEN {<<>>}
    ELSE LET shorter == LinesUpTo(n - 1)
         IN  shorter \cup {Append(t, l) : t \in {u \in shorter : Len(u) = n - 1},
                                          l \in DecisionLines}
FreeTexts == LinesUpTo(MaxLines)

\* A record as it is written: symbol and action, then possibly the confidence
\* line, then possibly the quantity line.
RecordForms ==
    {<<s, a>> : s \in SymbolLines, a \in ActionLines}
    \cup {<<s, a, c>> : s \in SymbolLines, a \in ActionLines, c \in PercentLines}
    \cup {<<s, a, c, q>> : s \in SymbolLines, a \in ActionLines, c \in PercentLines,
                           q \in QuantityLines}

RECURSIVE RecordsUpTo(_)
RecordsUpTo(n) ==
    IF n = 0 THEN {<<>>}
    ELSE LET shorter == RecordsUpTo(n - 1)
         IN  shorter \cup {Append(t, r) : t \in {u \in shorter : Len(u) = n - 1},
                                          r \in RecordForms}
RecordLists == RecordsUpTo(MaxRecords) \ {<<>>}

\* Records of all four lines NN% and an unsigned or malformed quantity, as the
\* TRADING_DECISIONS section of one message.
NumericRecordForms ==
    {<<s, a, Line("percent", "65%", 65), q>> :
        s \in SymbolLines, a \in ActionLines,
        q \in {Line("quantity", "QUANTITY: 25.7", 2570)} \cup MalformedQuantityLines}
RECURSIVE NumericRecordsUpTo(_)
NumericRecordsUpTo(n) ==
    IF n = 0 THEN {<<>>}
    ELSE LET shorter == NumericRecordsUpTo(n - 1)
         IN  shorter \cup {Append(t, r) : t \in {u \in shorter : Len(u) = n - 1},
                                          r \in NumericRecordForms}
NumericRecordLists == NumericRecordsUpTo(MaxRecords) \ {<<>>}

\* '\n'.join of the lines of the records.
RECURSIVE JoinRecords(_)
JoinRecords(records) ==
    IF records = <<>> THEN <<>> ELSE Head(records) \o JoinRecords(Tail(records))

\* The columns positions, action and confidence of an extension row, with its
\* TRADING_DECISIONS section.  positions is NULL or Some(JSON value): a list
\* of position objects ("list") or another JSON value ("other").
Position(side, confidence, size) == [side |-> side, confidence |-> confidence, size |-> size]
PositionsValues ==
    { NULL,
      Some([json |-> "other", list |-> <<>>]),
      Some([json |-> "list", list |-> << Position("long", Some(90), Some(150)) >>]),
      Some([json |-> "list", list |-> << Position(NoValue, NULL, NULL) >>]) }
DecisionRows ==
    [positions : PositionsValues,
     trading_decisions_text : {<<>>, <<Line("caps", "SOL", 0), Line("caps", "HOLD", 0)>>},
     action : {NoValue, "BUY", "CLOSE"},
     confidence : {NULL, Some(70), Some(150)}]
NoRow == [positions |-> NULL, trading_decisions_text |-> <<>>, action |-> NoValue,
          confidence |-> NULL]

TradingDecision(symbol, action, confidence, quantity) ==
    [symbol |-> symbol, action |-> action, confidence |-> confidence,
     quantity |-> quantity]

(***************************************************************************)
(* Decision parsing: the two text parsers and the row columns              *)
(***************************************************************************)
\* re.match(r'^[A-Z]{2,5}$', line): the lines of capitals here have 2 to 5.
IsSymbol(line) == line.shape = "caps"
\* re.match(r'(\d+)%', line)
IsPercent(line) == line.shape = "percent"
\* re.match(r'QUANTITY:\s*([-\d.]+)', line)
IsQuantity(line) == line.shape \in {"quantity", "malformed"}
\* float(token) returns a number; otherwise it raises ValueError.
IsNumber(line) == line.shape = "quantity"
\* str.upper
Upper(line) == IF line.shape = "lower" /\ line.text = "sell" THEN "SELL" ELSE line.text

\* ExtensionDataReader._parse_trading_decisions_text: the loop from index i.
RECURSIVE ScanFrom(_, _)
ScanFrom(lines, i) ==
    IF i > Len(lines) THEN <<>>
    ELSE IF IsSymbol(lines[i]) /\ i + 1 <= Len(lines)
    THEN LET has_conf == i + 2 <= Len(lines) /\ IsPercent(lines[i + 2])
             has_qty == has_conf /\ i + 3 <= Len(lines) /\ IsQuantity(lines[i + 3])
             step == IF has_qty THEN 4 ELSE IF has_conf THEN 3 ELSE 2
         IN  << TradingDecision(lines[i].text, Upper(lines[i + 1]),
                                IF has_conf THEN lines[i + 2].n ELSE 50,
                                IF has_qty THEN Some(lines[i + 3].n) ELSE NULL) >>
             \o ScanFrom(lines, i + step)
    ELSE ScanFrom(lines, i + 1)

parse_trading_decisions_text(lines) == ScanFrom(lines, 1)

\* The same loop: does float(qty_match.group(1)) raise on the way?
RECURSIVE ScanRaisesFrom(_, _)
ScanRaisesFrom(lines, i) ==
    IF i > Len(lines) THEN FALSE
    ELSE IF IsSymbol(lines[i]) /\ i + 1 <= Len(lines)
    THEN LET has_conf == i + 2 <= Len(lines) /\ IsPercent(lines[i + 2])
             has_qty == has_conf /\ i + 3 <= Len(lines) /\ IsQuantity(lines[i + 3])
             step == IF has_qty THEN 4 ELSE IF has_conf THEN 3 ELSE 2
         IN  (has_qty /\ ~IsNumber(lines[i + 3])) \/ ScanRaisesFrom(lines, i + step)
    ELSE ScanRaisesFrom(lines, i + 1)

\* QUANTITY:\s+([\d.]+): digits and dots only, so "1.2.3" matches and "-"
\* and "-2.49" do not.
IsUnsignedQuantity(line) ==
    \/ line.shape = "quantity" /\ line.n >= 0
    \/ line.shape = "malformed" /\ line.text = "QUANTITY: 1.2.3"

\* One match of ([A-Z]+)\s+(HOLD|BUY|SELL)\s+(\d+)%\s+QUANTITY:\s+([\d.]+)
\* starting in line i: four lines in a row, the quantity without a sign.
PatternMatches(lines, i) ==
    /\ i + 3 <= Len(lines)
    /\ lines[i].shape = "caps"
    /\ lines[i + 1].shape = "caps" /\ lines[i + 1].text \in {"HOLD", "BUY", "SELL"}
    /\ lines[i + 2].shape = "percent"
    /\ IsUnsignedQuantity(lines[i + 3])

\* ChainExtractor._parse_trading_decisions: re.finditer from line i.
RECURSIVE FindFrom(_, _)
FindFrom(lines, i) ==
    IF i > Len(lines) THEN <<>>
    ELSE IF PatternMatches(lines, i)
    THEN << TradingDecision(lines[i].text, lines[i + 1].text, lines[i + 2].n,
                            Some(lines[i + 3].n)) >>
         \o FindFrom(lines, i + 4)
    ELSE FindFrom(lines, i + 1)

parse_trading_decisions(lines) == FindFrom(lines, 1)

\* The same iteration: does float(quantity) raise on the way?
RECURSIVE FindRaisesFrom(_, _)
FindRaisesFrom(lines, i) ==
    IF i > Len(lines) THEN FALSE
    ELSE IF PatternMatches(lines, i)
    THEN ~IsNumber(lines[i + 3]) \/ FindRaisesFrom(lines, i + 4)
    ELSE FindRaisesFrom(lines, i + 1)

\* float(row['confidence'] or 0.5)
RowConfidence(row) ==
    IF row.confidence = NULL THEN 50 ELSE ValueOf(row.confidence)

\* The decisions built from the positions column.
PositionDecisions(row) ==
    IF row.positions = NULL \/ ValueOf(row.positions).json # "list" THEN <<>>
    ELSE LET list == ValueOf(row.positions).list
         IN  [k \in 1..Len(list) |->
                 TradingDecision("UNKNOWN",
                     IF list[k].side = NoValue THEN "HOLD" ELSE list[k].side,
                     IF list[k].confidence = NULL THEN RowConfidence(row)
                     ELSE ValueOf(list[k].confidence),
                     list[k].size)]

\* The trading decisions of _row_to_model_message: the positions column, else
\* the text of the TRADING_DECISIONS section, else the action column.
row_trading_decisions(row) ==
    LET from_positions == PositionDecisions(row)
        from_text == IF from_positions = <<>> /\ row.trading_decisions_text # <<>>
                     THEN parse_trading_decisions_text(row.trading_decisions_text)
                     ELSE from_positions
    IN  IF from_text = <<>> /\ row.action # NoValue
        THEN << TradingDecision("UNKNOWN", row.action, RowConfidence(row), NULL) >>
        ELSE from_text

(***************************************************************************)
(* Decision parsing: actions                                               *)
(***************************************************************************)
Parse(path, lines) ==
    IF path = "scanner" THEN parse_trading_decisions_text(lines)
    ELSE parse_trading_decisions(lines)

\* A parser is given a free text.
ParseText(path, lines) ==
    /\ p_pc' = "parsed" /\ p_path' = path
    /\ p_records' = <<>> /\ p_text' = lines /\ p_row' = NoRow
    /\ p_out' = Parse(path, lines)
    /\ UNCHANGED <<mvars, xvars, svars, ivars, rvars, hvars, fvars>>

\* A parser is given a text written record by record.
ParseRecords(path, records) ==
    /\ p_pc' = "parsed" /\ p_path' = path
    /\ p_records' = records /\ p_text' = JoinRecords(records) /\ p_row' = NoRow
    /\ p_out' = Parse(path, JoinRecords(records))
    /\ UNCHANGED <<mvars, xvars, svars, ivars, rvars, hvars, fvars>>

\* _row_to_model_message builds the decisions of an extension row.
ParseRow(row) ==
    /\ p_pc' = "parsed" /\ p_path' = "row"
    /\ p_records' = <<>> /\ p_text' = row.trading_decisions_text /\ p_row' = row
    /\ p_out' = row_trading_decisions(row)
    /\ UNCHANGED <<mvars, xvars, svars, ivars, rvars, hvars, fvars>>

ParseRaises(path, lines) ==
    IF path = "scanner" THEN ScanRaisesFrom(lines, 1) ELSE FindRaisesFrom(lines, 1)

\* One message is read whose TRADING_DECISIONS section is the given records:
\* by read_all_messages from an extension row without positions ("scanner"),
\* by extract_from_snapshot from a snapshot with header and chain of thought
\* ("regex").  Either encloses the parser in try/except Exception: the row is
\* skipped with a warning, the snapshot yields None.
ReadMessage(path, records) ==
    LET lines == JoinRecords(records)
        raises == ParseRaises(path, lines)
    IN  /\ p_pc' = IF raises THEN "skipped" ELSE "produced"
        /\ p_path' = path
        /\ p_records' = records /\ p_text' = lines /\ p_row' = NoRow
        /\ p_out' = IF raises THEN <<>> ELSE Parse(path, lines)
        /\ UNCHANGED <<mvars, xvars, svars, ivars, rvars, hvars, fvars>>

\* The decisions have been handed over.
ParseReturn ==
    /\ p_pc # "idle"
    /\ p_pc' = "idle" /\ p_path' = "scanner"
    /\ p_records' = <<>> /\ p_text' = <<>> /\ p_row' = NoRow /\ p_out' = <<>>
    /\ UNCHANGED <<mvars, xvars, svars, ivars, rvars, hvars, fvars>>

NextParse ==
    \/ /\ p_pc = "idle"
       /\ \E path \in {"scanner", "regex"}, lines \in FreeTexts : ParseText(path, lines)
    \/ /\ p_pc = "idle"
       /\ \E path \in {"scanner", "regex"}, records \in RecordLists :
              ParseRecords(path, records)
    \/ /\ p_pc = "idle"
       /\ \E row \in DecisionRows : ParseRow(row)
    \/ /\ p_pc = "idle"
       /\ \E path \in {"scanner", "regex"}, records \in NumericRecordLists :
              ReadMessage(path, records)
    \/ ParseReturn

(***************************************************************************)
(* Header recovery: a run over rows (read_all_messages) or snapshots       *)
(* (process_snapshot, once per snapshot).  The timestamp column of a row   *)
(* is TEXT NOT NULL: "iso" is a text datetime.fromisoformat accepts,       *)
(* "text" any other.  The timestamp of a message is "parsed" (read from    *)
(* the input) or "now" (datetime.now() at the time of reading).            *)
(***************************************************************************)
HeaderRows == [timestamp : {"iso", "text"}, market_data : {"object", "array"}]
HeaderSnapshots ==
    { <<"MODEL", "TS", CHAIN_OF_THOUGHT, "w">>,
      <<"TS", CHAIN_OF_THOUGHT, "w">>,
      <<"MODEL", CHAIN_OF_THOUGHT, "w">>,
      <<"MODEL", "TS_BAD", CHAIN_OF_THOUGHT, "w">> }

RECURSIVE RunsUpTo(_, _)
RunsUpTo(inputs, n) ==
    IF n = 0 THEN {<<>>}
    ELSE LET shorter == RunsUpTo(inputs, n - 1)
         IN  shorter \cup {Append(t, c) : t \in {u \in shorter : Len(u) = n - 1},
                                          c \in inputs}
RowRuns == RunsUpTo(HeaderRows, MaxRun) \ {<<>>}
SnapshotRuns == RunsUpTo(HeaderSnapshots, MaxRun) \ {<<>>}

\* try: datetime.fromisoformat(row['timestamp'])
\* except (ValueError, TypeError): datetime.now()
row_timestamp(row) == IF row.timestamp = "iso" THEN "parsed" ELSE "now"

\* One iteration of the loop of read_all_messages, with the timestamp of the
\* message.
read_header_row(row) ==
    LET r == read_row([raw_content |-> <<GLYPH, CHAIN_OF_THOUGHT, "NL", "w">>,
                       reasoning |-> NoValue, market_data |-> row.market_data])
    IN  IF r.kind = "message"
        THEN [kind |-> "message", timestamp |-> row_timestamp(row)]
        ELSE [kind |-> "skipped"]

\* NOF1Scraper.process_snapshot: the message of extract_from_snapshot, whose
\* timestamp is the datetime _extract_timestamp built, or None.
process_snapshot(snapshot) ==
    LET r == extract_from_snapshot(snapshot)
    IN  IF r.kind = "message"
        THEN [kind |-> "message", timestamp |-> "parsed"]
        ELSE [kind |-> "skipped"]

HandleInput(path, input) ==
    IF path = "extension" THEN read_header_row(input) ELSE process_snapshot(input)

\* A run starts over the rows of the table, or over a series of snapshots.
StartRun(path, inputs) ==
    /\ h_pc' = "running" /\ h_path' = path /\ h_inputs' = inputs
    /\ h_next' = 1 /\ h_messages' = <<>>
    /\ UNCHANGED <<mvars, xvars, svars, ivars, rvars, pvars, fvars>>

\* The next input is handled: its message is appended, or it is skipped.
HandleNext ==
    /\ h_pc = "running" /\ h_next <= Len(h_inputs)
    /\ LET r == HandleInput(h_path, h_inputs[h_next])
       IN  h_messages' =
               IF r.kind = "message"
               THEN Append(h_messages, [input |-> h_next, timestamp |-> r.timestamp])
               ELSE h_messages
    /\ h_next' = h_next + 1
    /\ UNCHANGED <<h_pc, h_path, h_inputs>>
    /\ UNCHANGED <<mvars, xvars, svars, ivars, rvars, pvars, fvars>>

\* The run is over: the messages are returned.
EndRun ==
    /\ h_pc = "running" /\ h_next > Len(h_inputs)
    /\ h_pc' = "done"
    /\ UNCHANGED <<h_path, h_inputs, h_next, h_messages>>
    /\ UNCHANGED <<mvars, xvars, svars, ivars, rvars, pvars, fvars>>

HeaderReturn ==
    /\ h_pc = "done"
    /\ h_pc' = "idle" /\ h_path' = "extension" /\ h_inputs' = <<>>
    /\ h_next' = 1 /\ h_messages' = <<>>
    /\ UNCHANGED <<mvars, xvars, svars, ivars, rvars, pvars, fvars>>

NextHeader ==
    \/ /\ h_pc = "idle"
       /\ \E inputs \in RowRuns : StartRun("extension", inputs)
    \/ /\ h_pc = "idle"
       /\ \E inputs \in SnapshotRuns : StartRun("playwright", inputs)
    \/ HandleNext
    \/ EndRun
    \/ HeaderReturn

(***************************************************************************)
(* Startup: DataMerger.__init__ over the file system.  The playwright data *)
(* root data_dir lies in a parent directory and holds raw/ and processed/. *)
(***************************************************************************)
\* The states of the directory tree: a directory exists only inside an
\* existing one.
DirTrees ==
    { {}, {"parent"}, {"parent", "data_dir"},
      {"parent", "data_dir", "raw"}, {"parent", "data_dir", "processed"},
      {"parent", "data_dir", "raw", "processed"} }
DbStates == {NULL} \cup {Some(n) : n \in 0..MaxRows}
NoSnapshot == [db |-> NULL, dirs |-> {}]
NothingSeen == [extension |-> 0, playwright |-> 0]

\* Path.mkdir(parents=True, exist_ok=True) of data_dir/raw and
\* data_dir/processed.
mkdir_parents(dirs) == dirs \cup {"parent", "data_dir", "raw", "processed"}

\* ExtensionDataReader.__init__: raises FileNotFoundError unless the file
\* exists.
reader_init(db) == IF db = NULL THEN "FileNotFoundError" ELSE "ok"

\* StorageManager.__init__: the directories after the call; it never raises.
storage_init(dirs) == mkdir_parents(dirs)

\* The file system the program is started on.
Deploy(db, dirs, files) ==
    /\ f_pc = "unset"
    /\ "raw" \notin dirs => files = 0
    /\ f_pc' = "deployed" /\ f_db' = db /\ f_dirs' = dirs /\ f_files' = files
    /\ UNCHANGED <<f_before, f_seen>>
    /\ UNCHANGED <<mvars, xvars, svars, ivars, rvars, pvars, hvars>>

\* DataMerger(extension_db_path, playwright_data_dir): the reader first, then
\* the storage manager.
ConstructMerger ==
    /\ f_pc = "deployed"
    /\ f_before' = [db |-> f_db, dirs |-> f_dirs]
    /\ IF reader_init(f_db) = "FileNotFoundError"
       THEN f_pc' = "FileNotFoundError" /\ f_dirs' = f_dirs
       ELSE f_pc' = "constructed" /\ f_dirs' = storage_init(f_dirs)
    /\ UNCHANGED <<f_db, f_files, f_seen>>
    /\ UNCHANGED <<mvars, xvars, svars, ivars, rvars, pvars, hvars>>

\* merge_all on the constructed merger: the rows of the database and the
\* files raw_dir.glob("*.json") finds.
MergeAfterStartup ==
    /\ f_pc = "constructed"
    /\ f_pc' = "merged"
    /\ f_seen' = [extension |-> ValueOf(f_db),
                  playwright |-> IF "raw" \in f_dirs THEN f_files ELSE 0]
    /\ UNCHANGED <<f_db, f_dirs, f_files, f_before>>
    /\ UNCHANGED <<mvars, xvars, svars, ivars, rvars, pvars, hvars>>

\* The program has ended.
StartupReturn ==
    /\ f_pc \in {"FileNotFoundError", "merged"}
    /\ f_pc' = "unset" /\ f_db' = NULL /\ f_dirs' = {} /\ f_files' = 0
    /\ f_before' = NoSnapshot /\ f_seen' = NothingSeen
    /\ UNCHANGED <<mvars, xvars, svars, ivars, rvars, pvars, hvars>>

NextStartup ==
    \/ \E db \in DbStates, dirs \in DirTrees, files \in 0..MaxFiles :
           Deploy(db, dirs, files)
    \/ ConstructMerger
    \/ MergeAfterStartup
    \/ StartupReturn

(***************************************************************************)
(* Idle values of the other components                                     *)
(***************************************************************************)
ExtractIdle ==
    /\ x_path = "none" /\ x_raw = <<>> /\ x_reasoning = NoValue
    /\ x_out = [kind |-> "none"]

ScoreIdle ==
    /\ known_rows = 0 /\ model_fingerprints = <<>> /\ s_pc = "build"
    /\ unknown_data = NoValue /\ scores = <<>> /\ s_outcome = "none"
    /\ best = NoValue

IdentifyIdle ==
    /\ i_pc = "store" /\ i_table = <<>> /\ i_before = <<>> /\ i_threshold = DEFAULT_THRESHOLD
    /\ i_next = 1 /\ results = NoValue /\ i_caller = "main" /\ i_request = FALSE

RetryIdle ==
    /\ r_pc = "idle" /\ r_total = 0 /\ r_i = 1 /\ r_attempt = 0
    /\ r_calls = <<>> /\ r_waits = <<>> /\ r_status = <<>> /\ r_last = "none"
    /\ r_pauses = 0 /\ success_count = 0 /\ error_count = 0 /\ error_log = <<>>

ParseIdle ==
    /\ p_pc = "idle" /\ p_path = "scanner" /\ p_records = <<>> /\ p_text = <<>>
    /\ p_row = NoRow /\ p_out = <<>>

HeaderIdle ==
    /\ h_pc = "idle" /\ h_path = "extension" /\ h_inputs = <<>> /\ h_next = 1
    /\ h_messages = <<>>

StartupIdle ==
    /\ f_pc = "unset" /\ f_db = NULL /\ f_dirs = {} /\ f_files = 0
    /\ f_before = NoSnapshot /\ f_seen = NothingSeen

Init ==
    /\ MergeIdle /\ ExtractIdle /\ ScoreIdle /\ IdentifyIdle /\ RetryIdle /\ ParseIdle
    /\ HeaderIdle /\ StartupIdle

SpecMerge == Init /\ [][NextMerge]_vars

SpecExtract == Init /\ [][NextExtract]_vars

SpecScore == Init /\ [][NextScore]_vars

SpecIdentify == Init /\ [][NextIdentify]_vars

SpecRetry == Init /\ [][NextRetry]_vars

SpecParse == Init /\ [][NextParse]_vars

SpecHeader == Init /\ [][NextHeader]_vars

SpecStartup == Init /\ [][NextStartup]_vars

\* The API answers every call and time.sleep returns: a batch that can take a
\* step takes it.
SpecRetryFair == SpecRetry /\ WF_vars(NextRetry)

(***************************************************************************)
(* Merge claims.  While m_pc = "merged" or "stats" the stores are those    *)
(* the call read, so the inputs of the call are InputA and InputB.         *)
(***************************************************************************)
InputA == read_all_messages(ext_rows)
InputB == load_all_messages(pw_files)
InputRecords == Range(InputA) \cup Range(InputB)

\* The calendar minute a timestamp falls in.
MinuteOf(ts) == ts \div 60

\* DedupKey of the data model: (model_name, content hash, minute).
DedupKey(m) == <<m.model_name, sha256_hex16(m.chain_of_thought), MinuteOf(m.timestamp)>>
KeysOf(S) == {DedupKey(m) : m \in S}

SourceOf(m) == IF m.message_id[1] = "ext" THEN "extension" ELSE "playwright"

\* C1: the merged list holds exactly one record for every DedupKey that
\* occurs in either input, and only records of the inputs.
C1_OneRecordPerKey ==
    m_pc = "merged" =>
        /\ \A i, j \in 1..Len(merged) :
               i # j => DedupKey(merged[i]) # DedupKey(merged[j])
        /\ KeysOf(Range(merged)) = KeysOf(InputRecords)
        /\ Range(merged) \subseteq InputRecords

\* A merge in which both sources hold a record of the same key, next to a
\* record of another key.
C1_Witness ==
    /\ m_pc = "merged"
    /\ \E a \in Range(InputA), b \in Range(InputB) : DedupKey(a) = DedupKey(b)
    /\ Len(merged) = 2
    /\ Len(InputA) + Len(InputB) = 4

\* C2: when a record of the priority source and a record of the other source
\* share a DedupKey, the output record of that key is the priority source's.
C2_PriorityWins ==
    m_pc = "merged" =>
        \A a, b \in InputRecords :
            (/\ SourceOf(a) = m_priority
             /\ SourceOf(b) # m_priority
             /\ DedupKey(a) = DedupKey(b))
            => /\ \E i \in 1..Len(merged) : DedupKey(merged[i]) = DedupKey(a)
               /\ \A i \in 1..Len(merged) :
                      DedupKey(merged[i]) = DedupKey(a) => SourceOf(merged[i]) = m_priority

\* Priority playwright: the extension record of a shared key is not in the output.
C2_Witness ==
    /\ m_pc = "merged"
    /\ m_priority = "playwright"
    /\ \E a \in Range(InputA), b \in Range(InputB) :
           /\ DedupKey(a) = DedupKey(b)
           /\ a.timestamp # b.timestamp
           /\ b \in Range(merged)
           /\ a \notin Range(merged)

\* C3: the merged list is ordered by timestamp, newest first.
C3_NewestFirst ==
    m_pc = "merged" =>
        \A i \in 1..Len(merged) - 1 : merged[i].timestamp >= merged[i + 1].timestamp

\* The priority source arrives oldest first and the output is newest first.
C3_Witness ==
    /\ m_pc = "merged"
    /\ m_priority = "extension"
    /\ Len(InputA) = 2
    /\ InputA[1].timestamp < InputA[2].timestamp
    /\ Len(merged) >= 3
    /\ merged[1].timestamp > merged[Len(merged)].timestamp

\* Both stores hold exactly the same corpus: every row is a message of it, and
\* each (model_name, chain_of_thought, timestamp) occurs as often in one as in
\* the other.
Triple(m) ==
    [model_name |-> m.model_name, chain_of_thought |-> m.chain_of_thought,
     timestamp |-> m.timestamp]
Occurrences(msgs, k) == Cardinality({i \in 1..Len(msgs) : Triple(msgs[i]) = k})
SelfMerge ==
    /\ m_pc = "stats"
    /\ Len(InputA) = Len(ext_rows)
    /\ \A k \in MessageKinds : Occurrences(InputA, k) = Occurrences(InputB, k)
DistinctKeys == Cardinality(KeysOf(Range(InputB)))

\* C4 as stated: merging a corpus with itself gives a unique count equal to the
\* number of distinct keys and duplicates_removed = len(corpus).
C4_Original ==
    SelfMerge =>
        /\ stats.total_unique_messages = DistinctKeys
        /\ stats.duplicates_removed = Len(InputB)

\* C4 as amended: the unique count is the number of distinct keys and
\* duplicates_removed = 2 * len(corpus) - distinct keys, which is len(corpus)
\* exactly when no two records of the corpus share a key.
C4_SelfMerge ==
    SelfMerge =>
        /\ stats.total_unique_messages = DistinctKeys
        /\ stats.duplicates_removed = 2 * Len(InputB) - DistinctKeys
        /\ (stats.duplicates_removed = Len(InputB)) <=> (DistinctKeys = Len(InputB))

\* A corpus of two records of one key, merged with itself.
C4_Witness ==
    /\ SelfMerge
    /\ Len(InputB) = 2
    /\ DistinctKeys = 1
    /\ stats.duplicates_removed = 3

\* C5: duplicates_removed = count(A) + count(B) - unique over the records that
\* entered the merge, and is never negative.
C5_DuplicatesRemoved ==
    m_pc = "stats" =>
        /\ stats.duplicates_removed =
               Len(InputA) + Len(InputB) - stats.total_unique_messages
        /\ stats.duplicates_removed >= 0

NoChainMarker ==
    /\ x_path \in {"extension", "playwright"}
    /\ \A i \in 1..Len(x_raw) : x_raw[i] # CHAIN_OF_THOUGHT

\* C7: every message either extraction path produces has a non-empty
\* chain_of_thought.
C7_NonEmptyChainOfThought ==
    x_out.kind = "message" => x_out.chain_of_thought # <<>>

FingerprintAt(i) == model_fingerprints[i]
Returned == s_pc = "matched" /\ s_outcome = "ok"

\* Inputs of the five sub-scores on the unknown record.
ReasoningPresent(u) == u.reasoning # NULL
IndicatorsPresent(u) ==
    u.entry_indicators \notin {NULL, JsonInvalid, JsonList(<<>>)}
ExitTypePresent(u) == u.exit_type # NoValue
ConfidencePresent(u) == u.confidence_level # NoValue
RiskTextPresent(u) == u.risk_management # NULL
NoInputPresent(u) ==
    ~ (ReasoningPresent(u) \/ IndicatorsPresent(u) \/ ExitTypePresent(u)
       \/ ConfidencePresent(u) \/ RiskTextPresent(u))

\* C9: match_unknown_message never fails, gives every known model a score in
\* [0,1], and gives exactly 0 when the unknown record has no sub-score input,
\* the record's reasoning text being missing included.
C9_ScoreInRange ==
    s_pc = "matched" =>
        /\ s_outcome = "ok"
        /\ Len(scores) = Len(model_fingerprints)
        /\ \A i \in 1..Len(scores) :
              /\ scores[i].den > 0
              /\ 0 <= scores[i].num /\ scores[i].num <= scores[i].den
              /\ NoInputPresent(unknown_data) => scores[i].num = 0

\* What is left of C9 when the call does return: every known model has a score
\* in [0,1], no division by zero, and 0 without any input.
ScoreInRangeWhenReturned ==
    Returned =>
        /\ Len(scores) = Len(model_fingerprints)
        /\ \A i \in 1..Len(scores) :
              /\ scores[i].den > 0
              /\ 0 <= scores[i].num /\ scores[i].num <= scores[i].den
              /\ NoInputPresent(unknown_data) => scores[i].num = 0

\* The call fails exactly on a record without reasoning text scored against a
\* model whose mean reasoning length is not 0.
TypeErrorOnMissingReasoning ==
    s_pc = "matched" =>
        (s_outcome = "TypeError" <=>
            /\ unknown_data.reasoning = NULL
            /\ \E i \in 1..Len(model_fingerprints) : FingerprintAt(i).length_sum > 0)

\* A fingerprint with samples for every sub-score: a mean length that is not
\* 0 and no empty counter.
HasSamples(fp) ==
    /\ fp.length_sum > 0
    /\ \E i \in Indicators : fp.entry_indicators[i] > 0
    /\ \E e \in ExitTypes : fp.exit_types[e] > 0
    /\ \E c \in ConfidenceLevels : fp.confidence_levels[c] > 0
    /\ \E k \in Keywords : fp.risk_keywords[k] > 0

\* The sub-scores as C10 includes them: a component is included whenever its
\* input is present on the unknown record, a value the model never used
\* counting 0 (length similarity is undefined for a mean of 0, risk overlap
\* for a model without any keyword: 0 of 1 stands for them).
ClaimedLength(fp, u) ==
    IF ReasoningPresent(u) /\ fp.length_sum > 0
    THEN [included |-> TRUE, w |-> W_LENGTH,
          n |-> Max0(fp.length_sum
                     - Abs(ValueOf(u.reasoning) * fp.total_messages - fp.length_sum)),
          d |-> fp.length_sum]
    ELSE Omitted
ClaimedIndicators(fp, u) ==
    IF IndicatorsPresent(u)
    THEN LET inds == ValueOf(u.entry_indicators).list
         IN  [included |-> TRUE, w |-> W_INDICATORS,
              n |-> Cardinality({k \in 1..Len(inds) : fp.entry_indicators[inds[k]] > 0}),
              d |-> Len(inds)]
    ELSE Omitted
ClaimedExit(fp, u) ==
    IF ExitTypePresent(u)
    THEN [included |-> TRUE, w |-> W_EXIT,
          n |-> fp.exit_types[u.exit_type], d |-> fp.total_messages]
    ELSE Omitted
ClaimedConfidence(fp, u) ==
    IF ConfidencePresent(u)
    THEN [included |-> TRUE, w |-> W_CONFIDENCE,
          n |-> fp.confidence_levels[u.confidence_level], d |-> fp.total_messages]
    ELSE Omitted
ClaimedRisk(fp, u) ==
    IF RiskTextPresent(u)
    THEN LET used == {k \in Keywords : fp.risk_keywords[k] > 0}
         IN  [included |-> TRUE, w |-> W_RISK,
              n |-> Cardinality(ValueOf(u.risk_management) \cap used),
              d |-> IF used = {} THEN 1 ELSE Cardinality(used)]
    ELSE Omitted

\* score = (sum of w * n / d) / (sum of w) over the included components c1..c5,
\* as an equation between integers; a score of 0 when none is included.
IsWeightedMean(score, c1, c2, c3, c4, c5) ==
    LET cs == <<c1, c2, c3, c4, c5>>
        D == c1.d * c2.d * c3.d * c4.d * c5.d
        Term(k) == IF cs[k].included THEN cs[k].w * cs[k].n * (D \div cs[k].d) ELSE 0
        WSum(k) == IF cs[k].included THEN cs[k].w ELSE 0
        N == Term(1) + Term(2) + Term(3) + Term(4) + Term(5)
        W == WSum(1) + WSum(2) + WSum(3) + WSum(4) + WSum(5)
    IN  IF W = 0 THEN score.num = 0
        ELSE score.num * D * W = N * score.den

\* C10: the aggregate score of every model is the weighted mean of the
\* sub-scores over exactly the components whose input is present on the unknown
\* record; an exit type or confidence level the model never used is included
\* with relative frequency 0 and its weight in the denominator.  Stated for
\* the fingerprints that have samples for every sub-score.
C10_AggregateOverPresent ==
    Returned =>
        \A i \in 1..Len(scores) :
            HasSamples(FingerprintAt(i)) =>
            IsWeightedMean(scores[i],
                ClaimedLength(FingerprintAt(i), unknown_data),
                ClaimedIndicators(FingerprintAt(i), unknown_data),
                ClaimedExit(FingerprintAt(i), unknown_data),
                ClaimedConfidence(FingerprintAt(i), unknown_data),
                ClaimedRisk(FingerprintAt(i), unknown_data))

\* What the code computes instead: the weighted mean over the components it
\* includes, where a present exit type, confidence level or risk text that
\* matches nothing the model used is left out together with its weight.
AggregateOverIncluded ==
    Returned =>
        \A i \in 1..Len(scores) :
            IsWeightedMean(scores[i],
                LengthComponent(FingerprintAt(i), unknown_data),
                IndicatorComponent(FingerprintAt(i), unknown_data),
                ExitComponent(FingerprintAt(i), unknown_data),
                ConfidenceComponent(FingerprintAt(i), unknown_data),
                RiskComponent(FingerprintAt(i), unknown_data))

\* C10 fails on nothing but such unmatched components: it holds for those
\* fingerprints whenever every present exit type, confidence level and risk
\* text matches the model.
AggregateOverPresentWhenMatched ==
    Returned =>
        \A i \in 1..Len(scores) :
            LET fp == FingerprintAt(i)
                u == unknown_data
            IN  (/\ HasSamples(fp)
                 /\ ExitTypePresent(u) => fp.exit_types[u.exit_type] > 0
                 /\ ConfidencePresent(u) => fp.confidence_levels[u.confidence_level] > 0
                 /\ RiskTextPresent(u) =>
                        \E k \in ValueOf(u.risk_management) : fp.risk_keywords[k] > 0)
                => IsWeightedMean(scores[i],
                       ClaimedLength(fp, u), ClaimedIndicators(fp, u),
                       ClaimedExit(fp, u), ClaimedConfidence(fp, u),
                       ClaimedRisk(fp, u))

(***************************************************************************)
(* Claims about the best match                                             *)
(***************************************************************************)
\* The fingerprints a run builds from the same known-model rows read in another
\* order: the counters and sums of a model do not depend on the order of its
\* rows, the place of a model in the dict is the place of its first row.
Reorderings(fingerprints) ==
    LET n == Len(fingerprints)
        perms == {p \in [1..n -> 1..n] : \A a, b \in 1..n : p[a] = p[b] => a = b}
    IN  {[k \in 1..n |-> fingerprints[p[k]]] : p \in perms}

\* What match_unknown_message returns for the fingerprints of another run.
BestOf(fingerprints, unknown) ==
    best_match(match_unknown_message(fingerprints, unknown).scores)

\* No model has a higher score than the returned one.
BestIsHighest ==
    Returned =>
        /\ \A i \in 1..Len(scores) : ~ ScoreLess(best, scores[i])
        /\ scores # <<>> => \E i \in 1..Len(scores) : scores[i] = best

\* C11: the best match is a model of highest score, and a run over the same
\* known-model rows presented in another row order returns the same model for
\* the same unknown record, ties included.
C11_OrderIndependent ==
    Returned =>
        /\ \A i \in 1..Len(scores) : ~ ScoreLess(best, scores[i])
        /\ \A other \in Reorderings(model_fingerprints) :
              BestOf(other, unknown_data).model = best.model

(***************************************************************************)
(* Claims about the identification run                                     *)
(***************************************************************************)
\* The rows the loop has dealt with, the best match of row k, and whether its
\* score reaches the threshold of the run.
Processed == IF i_pc = "done" THEN 1..Len(i_before) ELSE 1..(i_next - 1)
BestOfRow(k) == BestOf(model_fingerprints, i_before[k].data)
ReachesThreshold(k) == BestOfRow(k).num * 100 >= i_threshold * BestOfRow(k).den
IdentificationsOf(k) ==
    {n \in 1..Len(results.identifications) :
        results.identifications[n].message_id = i_before[k].message_id}

\* C12: a record is in the identifications list if and only if its best-match
\* score is at least the threshold; the others are counted as unidentified,
\* are in no identification and are left as they were by update_database.
C12_ThresholdGating ==
    i_pc \in {"loop", "done"} =>
        /\ \A k \in Processed :
              /\ ReachesThreshold(k) => Cardinality(IdentificationsOf(k)) = 1
              /\ ~ ReachesThreshold(k) => IdentificationsOf(k) = {}
              /\ ~ ReachesThreshold(k) => i_table[k] = i_before[k]
        /\ results.unidentified = Cardinality({k \in Processed : ~ ReachesThreshold(k)})
        /\ results.identified = Cardinality({k \in Processed : ReachesThreshold(k)})
        /\ results.identified = Len(results.identifications)

\* An applied run with a record scoring exactly the threshold, identified and
\* rewritten, and a record below it, left alone.
C12_Witness ==
    /\ i_pc = "done" /\ i_request /\ i_threshold = DEFAULT_THRESHOLD
    /\ \E k, l \in 1..Len(i_before) :
          /\ BestOfRow(k).num * 100 = i_threshold * BestOfRow(k).den
          /\ i_table[k].model_name # "unknown-model"
          /\ ~ ReachesThreshold(l)
          /\ i_table[l] = i_before[l]

\* C13: after update_database with dry_run=False every accepted record has the
\* identified model as model_name, and its full_json holds original_model =
\* 'unknown-model' and identification_confidence = the score.
C13_AuditMetadata ==
    (i_pc = "done" /\ i_request) =>
        \A n \in 1..Len(results.identifications) :
            LET ident == results.identifications[n]
                row == i_table[ident.message_id]
            IN  /\ row.model_name = ident.identified_as
                /\ row.full_json.original_model = "unknown-model"
                /\ row.full_json.identification_confidence = Some(ident.confidence)

\* What the update does keep: the new model_name and the score.
ConfidenceRecorded ==
    (i_pc = "done" /\ i_request) =>
        \A n \in 1..Len(results.identifications) :
            LET ident == results.identifications[n]
                row == i_table[ident.message_id]
            IN  /\ row.model_name = ident.identified_as
                /\ row.full_json.original_model = NoValue
                /\ row.full_json.identification_confidence = Some(ident.confidence)

\* C14: identification changes no stored record, and neither does
\* update_database unless the caller asked for the update (dry_run=False,
\* --update-database).
C14_DryRunByDefault ==
    /\ i_pc \in {"loop", "raised"} => i_table = i_before
    /\ (i_pc = "done" /\ ~ i_request) => i_table = i_before

\* update_database was called with identifications and its default dry_run.
C14_Witness ==
    /\ i_pc = "done" /\ ~ i_request /\ i_caller = "api"
    /\ results.identifications # <<>>
    /\ i_table = i_before

\* C15: without known-model records the run raises nothing, and for every
\* threshold from 0.0 to 1.0 every unknown record is counted as unidentified
\* and no identification is produced.
C15_NoFingerprintData ==
    (model_fingerprints = <<>> /\ i_pc # "store") =>
        /\ i_pc # "raised"
        /\ \A k \in Processed : BestOfRow(k).num = 0
        /\ results.identified = 0
        /\ results.identifications = <<>>
        /\ results.unidentified = Cardinality(Processed)

\* C15 for the thresholds above 0.
NoFingerprintDataAboveZero ==
    (model_fingerprints = <<>> /\ i_pc # "store" /\ i_threshold > 0) =>
        /\ i_pc # "raised"
        /\ \A k \in Processed : BestOfRow(k).num = 0
        /\ results.identified = 0
        /\ results.identifications = <<>>
        /\ results.unidentified = Cardinality(Processed)

(***************************************************************************)
(* Claims about the LLM extraction batch                                   *)
(***************************************************************************)
Messages == 1..r_total

\* A fatal error ends the batch at its message: nothing was slept after it,
\* no later message was touched, what was saved before stays saved.
AbortedAtFatal ==
    /\ r_last \in FatalErrors => r_pc = "aborted"
    /\ r_pc = "aborted" =>
          /\ r_last \in FatalErrors
          /\ r_status[r_i] = "fatal"
          /\ Len(r_waits[r_i]) = r_calls[r_i] - 1
          /\ \A k \in Messages :
                /\ k < r_i => r_status[k] \in {"saved", "failed"}
                /\ k > r_i => r_status[k] = "pending" /\ r_calls[k] = 0
          /\ success_count = Cardinality({k \in Messages : r_status[k] = "saved"})
    /\ \A k \in Messages : r_status[k] = "fatal" => r_pc = "aborted" /\ k = r_i

\* C16: on the first authentication or not-found error extract_reasoning
\* re-raises without sleeping or calling again, and process_messages takes no
\* further step: no later message is processed, earlier results stay saved.
C16_FatalAborts == []AbortedAtFatal /\ [][r_pc # "aborted"]_vars

\* A batch aborted at its second message after the first was saved.
C16_Witness ==
    /\ r_pc = "aborted" /\ r_i = 2
    /\ r_status[1] = "saved" /\ r_status[2] = "fatal"
    /\ r_calls[2] = 1

\* The calls made for each message: never more than max_retries; every call
\* but the last of a message met a transient error and was followed by one
\* sleep; a saved message ended with the first success; a message given up
\* after max_retries transient errors is logged as failed; the loop went on
\* to the next message.
RetriesCapped ==
    r_pc # "idle" =>
        /\ \A k \in Messages :
              /\ r_calls[k] <= MAX_RETRIES
              /\ r_status[k] \in {"saved", "failed"} =>
                    /\ k < r_i
                    /\ r_calls[k] = Len(r_waits[k]) + 1
              /\ r_status[k] = "failed" <=> \E n \in 1..Len(error_log) : error_log[n] = k
              /\ (r_status[k] = "pending" /\ r_pc = "running") => k >= r_i
        /\ r_pc = "running" =>
              /\ r_i \in Messages
              /\ r_attempt < MAX_RETRIES
              /\ r_calls[r_i] = r_attempt /\ Len(r_waits[r_i]) = r_attempt
        /\ (r_last \in TransientErrors /\ r_pc # "running") =>
              /\ r_pc = "finished"
              /\ r_calls[r_total] = MAX_RETRIES /\ r_status[r_total] = "failed"
        /\ error_count = Len(error_log)
        /\ r_pc = "finished" => \A k \in Messages : r_status[k] \in {"saved", "failed"}

\* C17: transient errors are retried up to the cap (at most max_retries calls
\* per message, stop at the first success, give up after max_retries transient
\* failures and record the message as failed), and the batch always reaches
\* its end: a running batch finishes unless a fatal error aborts it or the
\* saving of a result raises.
C17_TransientRetried ==
    /\ []RetriesCapped
    /\ (r_pc = "running") ~> (r_pc \in {"finished", "aborted", "raised"})

\* The first message was given up after max_retries transient errors and
\* logged, the second was saved at its second call, and the batch finished.
C17_Witness ==
    /\ r_pc = "finished" /\ r_total = 2
    /\ r_status[1] = "failed" /\ r_calls[1] = MAX_RETRIES
    /\ Len(r_waits[1]) = MAX_RETRIES - 1
    /\ error_log = <<1>>
    /\ r_status[2] = "saved" /\ r_calls[2] = 2

(***************************************************************************)
(* Claims about decision parsing                                           *)
(***************************************************************************)
\* The decision a written record stands for: confidence 0.5 and no quantity
\* for the lines it leaves out.
DecisionOf(record) ==
    TradingDecision(record[1].text, record[2].text,
                    IF Len(record) >= 3 THEN record[3].n ELSE 50,
                    IF Len(record) = 4 THEN Some(record[4].n) ELSE NULL)
DecisionsOf(records) == [k \in 1..Len(records) |-> DecisionOf(records[k])]

\* The confidence line of a record, when it has one, is NN%.
TwoDigits(record) == Len(record) >= 3 => record[3].n <= 99
\* A record of all four lines.
Complete(record) == Len(record) = 4 /\ TwoDigits(record)
\* The quantity of a record, when it has one, carries no sign.
Unsigned(record) == Len(record) = 4 => record[4].n >= 0

ParsedRecords == p_pc = "parsed" /\ p_records # <<>>

\* C18: for a text of well-formed records SYMBOL / ACTION / NN% / QUANTITY:
\* value, either text parser returns one decision per record, in order, with
\* the record's symbol, action, confidence NN/100 and quantity.
C18_WellFormedRecords ==
    (ParsedRecords /\ \A k \in 1..Len(p_records) : Complete(p_records[k]))
        => p_out = DecisionsOf(p_records)

\* C18 holds of the line scanner, and of the combined regex when no quantity
\* carries a sign.
WellFormedRecordsScanner ==
    (ParsedRecords /\ p_path = "scanner"
     /\ \A k \in 1..Len(p_records) : Complete(p_records[k]))
        => p_out = DecisionsOf(p_records)
WellFormedRecordsUnsigned ==
    (ParsedRecords
     /\ \A k \in 1..Len(p_records) : Complete(p_records[k]) /\ Unsigned(p_records[k]))
        => p_out = DecisionsOf(p_records)

\* C19: for a text of records SYMBOL / ACTION with an optional NN% line and,
\* after it, an optional QUANTITY line, either text parser returns one decision
\* per record, in order, with confidence 0.5 and no quantity where the line is
\* missing.  Stated for quantities without a sign; the signed ones are under
\* C18.
C19_RaggedRecords ==
    (ParsedRecords
     /\ \A k \in 1..Len(p_records) : TwoDigits(p_records[k]) /\ Unsigned(p_records[k]))
        => p_out = DecisionsOf(p_records)

\* C19 holds of the line scanner, signed quantities included; the combined
\* regex returns the complete unsigned records and nothing else.
RaggedRecordsScanner ==
    (ParsedRecords /\ p_path = "scanner"
     /\ \A k \in 1..Len(p_records) : TwoDigits(p_records[k]))
        => p_out = DecisionsOf(p_records)
RegexKeepsCompleteRecords ==
    (ParsedRecords /\ p_path = "regex") =>
        LET kept == {k \in 1..Len(p_records) :
                        Len(p_records[k]) = 4 /\ Unsigned(p_records[k])}
        IN  /\ Len(p_out) = Cardinality(kept)
            /\ \A k \in kept : \E n \in 1..Len(p_out) : p_out[n] = DecisionOf(p_records[k])

\* C20: every decision produced, by the line scanner, the combined regex or
\* the columns of an extension row, has an action among HOLD, BUY, SELL and a
\* confidence in [0,1].
C20_DecisionConstraints ==
    p_pc = "parsed" =>
        \A n \in 1..Len(p_out) :
            /\ p_out[n].action \in {"HOLD", "BUY", "SELL"}
            /\ 0 <= p_out[n].confidence /\ p_out[n].confidence <= 100

\* The one constraint a path does keep: the regex admits no other action.
RegexActionsValid ==
    (p_pc = "parsed" /\ p_path = "regex") =>
        \A n \in 1..Len(p_out) : p_out[n].action \in {"HOLD", "BUY", "SELL"}

(***************************************************************************)
(* Claims on unparsable numbers                                            *)
(***************************************************************************)
Read == p_pc \in {"produced", "skipped"}

\* What the record gives when an unparsable quantity only empties its field.
DecisionOrNull(record) ==
    TradingDecision(record[1].text, record[2].text, record[3].n,
                    IF IsNumber(record[4]) THEN Some(record[4].n) ELSE NULL)

\* C21: a quantity token that matches its label pattern but is no number
\* ("QUANTITY: 1.2.3", "QUANTITY: -") only sets that field to null: the
\* message is still produced, with one decision per record, the other
\* fields and the other records parsed.
C21_ParseFailureLocal ==
    Read => /\ p_pc = "produced"
            /\ p_out = [k \in 1..Len(p_records) |-> DecisionOrNull(p_records[k])]

\* What holds: while every quantity is a number the message is produced with
\* all its decisions, and a message is skipped only on an unparsable quantity.
ParsableMessageProduced ==
    (Read /\ \A k \in 1..Len(p_records) : IsNumber(p_records[k][4]))
        => /\ p_pc = "produced"
           /\ p_out = [k \in 1..Len(p_records) |-> DecisionOrNull(p_records[k])]
SkippedOnlyOnMalformed ==
    p_pc = "skipped" => \E k \in 1..Len(p_records) : ~IsNumber(p_records[k][4])

(***************************************************************************)
(* Claims on section extraction                                            *)
(***************************************************************************)
Labels == {USER_PROMPT, CHAIN_OF_THOUGHT, TRADING_DECISIONS}

\* The text with a trailing marker glyph (the decoration of the next label)
\* and the whitespace around it removed.
DropMarker(s) ==
    LET t == RStrip(s)
    IN  IF t # <<>> /\ t[Len(t)] = GLYPH THEN SubSeq(t, 1, Len(t) - 1) ELSE s

\* The section of a label as the specification delimits it: the text after
\* the first occurrence of the label and before the start of the next
\* recognized label (with its marker glyph) or the end of the text, stripped.
SectionOf(text, section_name) ==
    LET j == MinOf({k \in 1..Len(text) : text[k] = section_name})
        nexts == {k \in (j + 1)..Len(text) : text[k] \in Labels}
        e == IF nexts = {} THEN Len(text) ELSE MinOf(nexts) - 1
    IN  Strip(DropMarker(SubSeq(text, j + 1, e)))

Present(text, section_name) == \E k \in 1..Len(text) : text[k] = section_name

\* What the path in use extracts from the text in hand.
Extracted(section_name) ==
    IF x_path = "extension" THEN reader_extract_section(x_raw, section_name)
    ELSE extractor_extract_section(SnapshotRepr(x_raw), section_name)

\* Every label of the text stands at the head of a line of its own, with or
\* without the marker glyph, and the text holds no other glyph.
Headed(text) ==
    /\ \A k \in 1..Len(text) :
           text[k] \in Labels =>
               /\ k < Len(text) /\ text[k + 1] = "NL"
               /\ k > 1 => text[k - 1] \in {GLYPH, "NL"}
    /\ \A k \in 1..Len(text) :
           text[k] = GLYPH => (k < Len(text) /\ text[k + 1] \in Labels)

\* C22: for each of the three labels present in a raw text, section
\* extraction returns exactly the text after that label and before the start
\* of the next recognized label or the end of text, stripped, without marker
\* glyph, own label or any part of a following section.  Stated for texts
\* whose labels head lines of their own.
C22_SectionBounds ==
    (x_path # "none" /\ Headed(x_raw)) =>
        \A name \in Labels :
            Present(x_raw, name) => Extracted(name) = SectionOf(x_raw, name)

\* The same on each path.
ReaderSectionBounds ==
    (x_path = "extension" /\ Headed(x_raw)) =>
        \A name \in Labels :
            Present(x_raw, name) => Extracted(name) = SectionOf(x_raw, name)
ExtractorSectionBounds ==
    (x_path = "playwright" /\ Headed(x_raw)) =>
        \A name \in Labels :
            Present(x_raw, name) => Extracted(name) = SectionOf(x_raw, name)

\* The sections a produced message carries are the extracted ones.
MessageCarriesSections ==
    (x_path # "none" /\ x_out.kind = "message") =>
        /\ x_out.trading_decisions_text = Extracted(TRADING_DECISIONS)
        /\ x_path = "playwright" =>
               /\ x_out.user_prompt = Extracted(USER_PROMPT)
               /\ x_out.chain_of_thought = Extracted(CHAIN_OF_THOUGHT)

\* Every label of the text is written GLYPH NAME newline, and the text holds
\* no other glyph.
Decorated(text) ==
    /\ \A k \in 1..Len(text) :
           text[k] \in Labels =>
               /\ k > 1 /\ text[k - 1] = GLYPH
               /\ k < Len(text) /\ text[k + 1] = "NL"
    /\ \A k \in 1..Len(text) :
           text[k] = GLYPH => (k < Len(text) /\ text[k + 1] \in Labels)

\* What holds: the reader's glyph pattern cuts decorated texts as the
\* specification delimits them.
ReaderDecoratedSections ==
    (x_path = "extension" /\ Decorated(x_raw)) =>
        \A name \in Labels :
            Present(x_raw, name) => Extracted(name) = SectionOf(x_raw, name)

(***************************************************************************)
(* Claims on optional sections                                             *)
(***************************************************************************)
\* What a message needs is there: the CHAIN_OF_THOUGHT label and, in a
\* snapshot, a model name and a date; the row is not skipped for a column.
MandatoryPresent ==
    /\ Present(x_raw, CHAIN_OF_THOUGHT)
    /\ x_out.kind # "skipped"
    /\ x_path = "playwright" =>
           /\ extract_model_name(SnapshotRepr(x_raw)) # NoValue
           /\ extract_timestamp(SnapshotRepr(x_raw)) = "datetime"

\* C23: USER_PROMPT and TRADING_DECISIONS are optional: a raw text without a
\* USER_PROMPT section gives a message whose user_prompt is the empty string,
\* one without a TRADING_DECISIONS section a message with no decisions text
\* to parse (so an empty list of decisions); the message is still produced.
C23_OptionalSections ==
    (x_path # "none" /\ MandatoryPresent) =>
        /\ ~Present(x_raw, USER_PROMPT) =>
               x_out.kind = "message" /\ x_out.user_prompt = <<>>
        /\ ~Present(x_raw, TRADING_DECISIONS) =>
               x_out.kind = "message" /\ x_out.trading_decisions_text = <<>>

\* What holds: the snapshot extractor does so; the extension reader produces
\* the message too, without decisions text, but with a placeholder prompt.
ExtractorOptionalSections ==
    (x_path = "playwright" /\ MandatoryPresent) =>
        /\ ~Present(x_raw, USER_PROMPT) =>
               x_out.kind = "message" /\ x_out.user_prompt = <<>>
        /\ ~Present(x_raw, TRADING_DECISIONS) =>
               x_out.kind = "message" /\ x_out.trading_decisions_text = <<>>
ReaderPlaceholderPrompt ==
    (x_path = "extension" /\ MandatoryPresent) =>
        /\ x_out.kind = "message"
        /\ ~Present(x_raw, USER_PROMPT) => x_out.user_prompt = <<FALLBACK_PROMPT>>
        /\ ~Present(x_raw, TRADING_DECISIONS) => x_out.trading_decisions_text = <<>>

(***************************************************************************)
(* Claims on header recovery                                               *)
(***************************************************************************)
\* Model name or timestamp of the input cannot be recovered.
Unrecoverable(path, input) ==
    IF path = "extension" THEN input.timestamp # "iso"
    ELSE \/ extract_model_name(SnapshotRepr(input)) = NoValue
         \/ extract_timestamp(SnapshotRepr(input)) # "datetime"

\* The input is skipped for another reason (a market_data that is no object).
OtherwiseSkipped(path, input) == path = "extension" /\ input.market_data = "array"

MessagesOf(k) == {n \in 1..Len(h_messages) : h_messages[n].input = k}
Handled == IF h_pc = "idle" THEN {} ELSE 1..(h_next - 1)

\* C24: an input whose model name or timestamp cannot be recovered is
\* skipped: no message is produced for it, in particular none with a
\* substituted timestamp; the inputs before and after it in the same run
\* still give their messages.
C24_UnrecoverableSkipped ==
    /\ \A k \in Handled :
           IF Unrecoverable(h_path, h_inputs[k]) \/ OtherwiseSkipped(h_path, h_inputs[k])
           THEN MessagesOf(k) = {}
           ELSE Cardinality(MessagesOf(k)) = 1
    /\ \A n \in 1..Len(h_messages) : h_messages[n].timestamp = "parsed"
    /\ h_pc = "done" => h_next = Len(h_inputs) + 1

\* What holds: the snapshot path does so; on either path a failure never
\* stops the run, and every other input gives exactly one message, in order.
SnapshotUnrecoverableSkipped ==
    h_path = "playwright" =>
        /\ \A k \in Handled :
               IF Unrecoverable(h_path, h_inputs[k])
               THEN MessagesOf(k) = {}
               ELSE Cardinality(MessagesOf(k)) = 1
        /\ \A n \in 1..Len(h_messages) : h_messages[n].timestamp = "parsed"
RunNeverStops ==
    /\ h_pc = "done" => h_next = Len(h_inputs) + 1
    /\ \A k \in Handled :
           ~(Unrecoverable(h_path, h_inputs[k]) \/ OtherwiseSkipped(h_path, h_inputs[k]))
               => Cardinality(MessagesOf(k)) = 1
    /\ \A n, o \in 1..Len(h_messages) :
           n < o => h_messages[n].input < h_messages[o].input
\* The reader keeps the row whose timestamp it cannot read, stamped with the
\* time of reading.
ReaderSubstitutesNow ==
    h_path = "extension" =>
        \A k \in Handled :
            (h_inputs[k].timestamp = "text" /\ h_inputs[k].market_data = "object")
                => \E n \in MessagesOf(k) : h_messages[n].timestamp = "now"

(***************************************************************************)
(* Claims on startup                                                       *)
(***************************************************************************)
Started == f_pc \in {"constructed", "FileNotFoundError", "merged"}
DbMissing == f_before.db = NULL
RootMissing == "data_dir" \notin f_before.dirs

\* C25: constructing the merger when the extension database or the
\* playwright data root does not exist raises an error and creates nothing;
\* a missing source is never replaced by an empty one.
C25_SourceUnavailableFatal ==
    (Started /\ (DbMissing \/ RootMissing)) =>
        /\ f_pc = "FileNotFoundError"
        /\ f_dirs = f_before.dirs /\ f_db = f_before.db

\* What holds: a missing database is fatal and nothing is created, whatever
\* the state of the data root; a missing data root alone is created empty and
\* read as a source without messages.
MissingDatabaseFatal ==
    (Started /\ DbMissing) =>
        /\ f_pc = "FileNotFoundError"
        /\ f_dirs = f_before.dirs /\ f_db = f_before.db
MissingRootCreated ==
    (Started /\ ~DbMissing /\ RootMissing) =>
        /\ f_pc \in {"constructed", "merged"}
        /\ {"data_dir", "raw", "processed"} \subseteq f_dirs
        /\ f_pc = "merged" => f_seen.playwright = 0

(***************************************************************************)
(* Claims on the equivalence of the two parsers                            *)
(***************************************************************************)
OtherPath(path) == IF path = "scanner" THEN "regex" ELSE "scanner"

\* C26: on a text made only of well-formed four-line records SYMBOL /
\* ACTION / NN% / QUANTITY: value, the value possibly negative, the combined
\* regex and the line scanner return the same list of decisions.
C26_ParsersEquivalent ==
    (ParsedRecords /\ \A k \in 1..Len(p_records) : Complete(p_records[k]))
        => p_out = Parse(OtherPath(p_path), p_text)

\* What holds: the two agree while no quantity carries a sign.
ParsersEquivalentUnsigned ==
    (ParsedRecords
     /\ \A k \in 1..Len(p_records) : Complete(p_records[k]) /\ Unsigned(p_records[k]))
        => p_out = Parse(OtherPath(p_path), p_text)

(***************************************************************************)
(* Claims on the backoff                                                   *)
(***************************************************************************)
\* C27: within the retries of one message each wait is strictly longer than
\* the one before, for any sequence of transient error kinds; there are at
\* most max_retries - 1 waits and no wait follows the final failed attempt.
C27_BackoffIncreases ==
    r_pc # "idle" =>
        \A k \in Messages :
            /\ \A n \in 1..(Len(r_waits[k]) - 1) : r_waits[k][n] < r_waits[k][n + 1]
            /\ Len(r_waits[k]) <= MAX_RETRIES - 1
            /\ r_status[k] = "failed" => Len(r_waits[k]) = r_calls[k] - 1

\* What holds: the number of waits, and each wait being the attempt's power
\* of two times the multiplier of the error met (1, 2 or 3 seconds).
WaitsCapped ==
    r_pc # "idle" =>
        \A k \in Messages :
            /\ Len(r_waits[k]) <= MAX_RETRIES - 1
            /\ r_status[k] = "failed" => Len(r_waits[k]) = r_calls[k] - 1
WaitsByAttempt ==
    r_pc # "idle" =>
        \A k \in Messages :
            \A n \in 1..Len(r_waits[k]) :
                r_waits[k][n] \in {wait_time(error, n - 1) : error \in TransientErrors}

(***************************************************************************)
(* Claims on the accounting of the batch                                   *)
(***************************************************************************)
\* The messages whose extraction returned a result, and those for which it
\* returned none.
WithResult == {k \in Messages : r_status[k] \in {"saved", "unsaved"}}
WithoutResult == {k \in Messages : r_status[k] = "failed"}
SavedRows == {k \in Messages : r_status[k] = "saved"}

\* C28: success_count + error_count is the number of messages handled so
\* far; a row is saved only for a message whose extraction returned a result;
\* every message without a result is in the error log exactly once; every
\* message whose extraction succeeded is counted as a success.
C28_BatchAccounting ==
    r_pc # "idle" =>
        /\ success_count + error_count = Cardinality(WithResult \cup WithoutResult)
        /\ SavedRows \subseteq WithResult
        /\ \A k \in WithoutResult :
               Cardinality({n \in 1..Len(error_log) : error_log[n] = k}) = 1
        /\ success_count = Cardinality(WithResult)
        /\ error_count = Cardinality(WithoutResult)

\* What holds: the accounting is exact until the saving of a result raises,
\* and what was counted before stays as it was.
AccountingUntilRaised ==
    (r_pc # "idle" /\ r_pc # "raised") =>
        /\ success_count = Cardinality(WithResult)
        /\ WithResult = SavedRows
        /\ error_count = Cardinality(WithoutResult)
        /\ \A k \in WithoutResult :
               Cardinality({n \in 1..Len(error_log) : error_log[n] = k}) = 1
        /\ \A n \in 1..Len(error_log) : error_log[n] \in WithoutResult
AccountingWhenRaised ==
    r_pc = "raised" =>
        /\ WithResult = SavedRows \cup {r_i} /\ r_status[r_i] = "unsaved"
        /\ success_count = Cardinality(SavedRows)
        /\ error_count = Cardinality(WithoutResult)

(***************************************************************************)
(* Claims on collisions inside one source                                  *)
(***************************************************************************)
\* The two inputs of the merge by role, in input order.
PriorityInput == IF m_priority = "extension" THEN InputA ELSE InputB
OtherInput == IF m_priority = "extension" THEN InputB ELSE InputA

\* Positions of the records of a key in a list.
PositionsOf(msgs, key) == {i \in 1..Len(msgs) : DedupKey(msgs[i]) = key}
FirstOf(msgs, key) == msgs[MinOf(PositionsOf(msgs, key))]
LastOf(msgs, key) ==
    msgs[CHOOSE i \in PositionsOf(msgs, key) : \A j \in PositionsOf(msgs, key) : j <= i]
MergedOf(key) == {merged[i] : i \in PositionsOf(merged, key)}

\* C29: of the records of the priority source that share a DedupKey the
\* output keeps the last in input order; of the records of the other source
\* that share a key no priority record has, it keeps the first; a record of
\* the other source never replaces a stored one.
C29_CollisionsByPosition ==
    m_pc = "merged" =>
        /\ \A key \in KeysOf(Range(PriorityInput)) :
               MergedOf(key) = {LastOf(PriorityInput, key)}
        /\ \A key \in KeysOf(Range(OtherInput)) \ KeysOf(Range(PriorityInput)) :
               MergedOf(key) = {FirstOf(OtherInput, key)}
        /\ \A i \in 1..Len(merged) :
               SourceOf(merged[i]) # m_priority =>
                   /\ DedupKey(merged[i]) \notin KeysOf(Range(PriorityInput))
                   /\ merged[i] = FirstOf(OtherInput, DedupKey(merged[i]))

\* Two records of one key in each source, the keys differing: the output is
\* the second of the priority source and the first of the other.
C29_Witness ==
    /\ m_pc = "merged"
    /\ Len(PriorityInput) = 2 /\ Len(OtherInput) = 2
    /\ DedupKey(PriorityInput[1]) = DedupKey(PriorityInput[2])
    /\ PriorityInput[1].timestamp # PriorityInput[2].timestamp
    /\ DedupKey(OtherInput[1]) = DedupKey(OtherInput[2])
    /\ OtherInput[1] # OtherInput[2]
    /\ DedupKey(OtherInput[1]) # DedupKey(PriorityInput[1])
    /\ Range(merged) = {PriorityInput[2], OtherInput[1]}

(***************************************************************************)
(* Claims on the rollup counts                                             *)
(***************************************************************************)
RECURSIVE SumOver(_, _)
SumOver(f, S) ==
    IF S = {} THEN 0
    ELSE LET x == CHOOSE y \in S : TRUE IN f[x] + SumOver(f, S \ {x})

\* C30: in the results of identify_all_unknown, for any corpus and threshold,
\* total_unknown = identified + unidentified, identified is the length of the
\* identifications list and the sum of the by_identified_model counts, and
\* each unknown record counts in exactly one of identified and unidentified.
C30_RollupConsistent ==
    i_pc \in {"loop", "done"} =>
        /\ results.total_unknown = results.identified + results.unidentified
        /\ results.total_unknown = Cardinality(Processed)
        /\ results.identified = Len(results.identifications)
        /\ results.identified =
               SumOver(results.by_identified_model, DOMAIN results.by_identified_model)
        /\ \A m \in DOMAIN results.by_identified_model :
               results.by_identified_model[m] =
                   Cardinality({n \in 1..Len(results.identifications) :
                                   results.identifications[n].identified_as = m})
        /\ \A k \in Processed : Cardinality(IdentificationsOf(k)) <= 1
        /\ results.identified =
               Cardinality({k \in Processed : IdentificationsOf(k) # {}})
        /\ results.unidentified =
               Cardinality({k \in Processed : IdentificationsOf(k) = {}})

\* A finished run over two records, one identified and one not.
C30_Witness ==
    /\ i_pc = "done" /\ Len(i_before) = 2
    /\ results.total_unknown = 2
    /\ results.identified = 1 /\ results.unidentified = 1
    /\ \E m \in ModelNames : results.by_identified_model[m] = 1

=============================================================================
